---------------------------- MODULE Spec2Model ----------------------------
(***************************************************************************)
(* Model of the steno lexer of spectra_lexer (steno/lexer/lexer.py):       *)
(* StenoLexerFactory.add_rule / build, StenoLexer.query, _process,         *)
(* _find_best, _keep_better, _rare_diff and LexerResult.caption.           *)
(*                                                                         *)
(* Strings (s-keys, letters) are sequences of one-character strings.       *)
(* A lexer state is the flat list of the source:                           *)
(*   <<keys_not_yet_matched, rule1_name, rule1_start, rule1_length, ...>>  *)
(* The rule matchers (steno/lexer/match.py) are modelled from section 4.D  *)
(* of the specification.                                                   *)
(***************************************************************************)
EXTENDS Integers, Sequences, FiniteSets, TLC

VARIABLES
    factory,        \* StenoLexerFactory: the four matchers and _rare_rules
    lexer,          \* StenoLexer: _rule_matchers and _rare_set (None before build)
    pc,             \* "factory" | "idle" | "process" | "done"
    skeys,          \* query argument
    letters,        \* query argument
    match_all_keys, \* query argument
    q,              \* the queue of _process
    idx,            \* the iterator index of `for skeys_left, *rmap in q`
    result,         \* the LexerResult the call returned (None while none has returned)
    memo,           \* a remembered earlier call, <<skeys, letters, match_all_keys, result>>, or <<>>
    fbt,            \* the last call of find_best_translation: its argument and outcome
    rev_rules,      \* IndexManager._rev_rules: rule -> name
    compiled,       \* the last call of IndexManager._compile_results: argument and index
    parser,         \* StenoRuleParser: the dict of parsed rules, name -> StenoRule
    parsing,        \* the calls made on the parser: phase, source dict and outcomes
    canvas,         \* Canvas: _grid, _row_offset, _col_offset (no grid before __init__)
    canvas_log,     \* the calls made on the canvas: the last call and what is written where
    drawn,          \* the last call of ElementCanvas.from_layout: the layout and the canvas
    rlevel,         \* Application._rlevel
    threads         \* the threads in Application.call: where each is, and how its last command ended

\* The state of the lexer and its factory.
lexer_vars == <<factory, lexer, pc, skeys, letters, match_all_keys, q, idx, result, memo, fbt>>

\* The state of the index manager.
index_vars == <<rev_rules, compiled>>

\* The state of the rule parser.
parser_vars == <<parser, parsing>>

\* The state of the canvas.
canvas_vars == <<canvas, canvas_log>>

\* The state of the graph.
graph_vars == <<drawn>>

\* The state of the application and of the threads that call it.
app_vars == <<rlevel, threads>>

\* The state of the canvas, the graph and the application.
later_vars == <<canvas_vars, graph_vars, app_vars>>

\* The state outside the lexer's query: untouched by the actions of query.
other_vars == <<fbt, index_vars, parser_vars, later_vars>>

vars == <<factory, lexer, pc, skeys, letters, match_all_keys, q, idx, result, memo, other_vars>>

\* Python's None, where the variable otherwise holds an object.
None == [none |-> TRUE]

(* ------------------------------ bounds -------------------------------- *)
MaxKeys == 2        \* longest s-keys string queried
MaxLetters == 2     \* longest letter string queried
MaxRules == 3       \* most rules added to a factory
MaxTranslations == 2 \* most candidates passed to find_best_translation
MaxResults == 2     \* most lexer results in a stream given to _compile_results
MaxRulemap == 2     \* most items in the rulemap of such a result
MaxEntries == 2     \* most entries of a source dict given to from_raw
MaxTokens == 2      \* most items (a letter or a bracket token) in a pattern

(* ----------------------------- constants ------------------------------ *)
KEY_SEP == "/"
SPECIAL == "SPEC"
STROKE == "STRK"
WORD == "WORD"
RARE == "RARE"

KeyChars == {"H", "E", KEY_SEP}
LetterChars == {"h", "e"}

\* The rules that may be added to a factory: (name, skeys, letters, flags).
RulePool ==
    << [name |-> "H",   skeys |-> <<"H">>,      letters |-> <<"h">>,      flags |-> {}],
       [name |-> "E",   skeys |-> <<"E">>,      letters |-> <<"e">>,      flags |-> {}],
       [name |-> "E0",  skeys |-> <<"E">>,      letters |-> <<>>,         flags |-> {}],
       [name |-> "E!",  skeys |-> <<"E">>,      letters |-> <<"e">>,      flags |-> {RARE}],
       [name |-> "HE!", skeys |-> <<"H", "E">>, letters |-> <<"h", "e">>, flags |-> {RARE}],
       [name |-> "EE!", skeys |-> <<"E", "E">>, letters |-> <<"e">>,      flags |-> {RARE}],
       [name |-> "HE$", skeys |-> <<"H", "E">>, letters |-> <<"h">>,      flags |-> {STROKE}],
       [name |-> "Hw",  skeys |-> <<"H">>,      letters |-> <<"H", "e">>, flags |-> {WORD}],
       [name |-> "/",   skeys |-> <<KEY_SEP>>,  letters |-> <<>>,         flags |-> {SPECIAL}] >>

(* ------------------------- sequence utilities ------------------------- *)
SeqsUpTo(S, n) == UNION {[1..k -> S] : k \in 0..n}

\* Python s[n:]
Drop(s, n) == IF n >= Len(s) THEN <<>> ELSE SubSeq(s, n + 1, Len(s))

\* Python s[from::step] (from is 0-based)
Stride(s, from, step) ==
    LET n == IF Len(s) > from THEN (Len(s) - from + step - 1) \div step ELSE 0
    IN  [k \in 1..n |-> s[from + 1 + (k - 1) * step]]

RECURSIVE Sum(_)
Sum(s) == IF s = <<>> THEN 0 ELSE Head(s) + Sum(Tail(s))

RECURSIVE Flatten(_)
Flatten(ss) == IF ss = <<>> THEN <<>> ELSE Head(ss) \o Flatten(Tail(ss))

Min2(a, b) == IF a <= b THEN a ELSE b

StartsWith(s, p) == Len(p) <= Len(s) /\ SubSeq(s, 1, Len(p)) = p

\* Python s.find(sub): the lowest 0-based index where sub occurs in s, or -1.
Find(s, sub) ==
    LET hits == {i \in 0..(Len(s) - Len(sub)) : SubSeq(s, i + 1, i + Len(sub)) = sub}
    IN  IF hits = {} THEN -1 ELSE CHOOSE i \in hits : \A j \in hits : i <= j

(* ------------------------ rule matchers (4.D) ------------------------- *)
\* A match is <<rule, leftover_skeys, rule_start_in_remaining_letters, rule_length>>.

LowerChar(c) == IF c = "H" THEN "h" ELSE IF c = "E" THEN "e" ELSE c
Lower(s) == [i \in 1..Len(s) |-> LowerChar(s[i])]
IsSpace(c) == c = " "

MatchesOf(rules, test(_), start(_), length(_), left(_)) ==
    LET hit == SelectSeq(rules, test)
    IN  [k \in 1..Len(hit) |-> <<hit[k].name, left(hit[k]), start(hit[k]), length(hit[k])>>]

\* Every rule whose keys are a prefix of the remaining keys and whose letters occur
\* in the remaining letters; rule_start is the offset of the occurrence.
PrefixMatch(rules, skeys_left, letters_left, all_skeys, all_letters) ==
    LET test(r) == StartsWith(skeys_left, r.skeys) /\ Find(letters_left, r.letters) >= 0
        start(r) == Find(letters_left, r.letters)
        length(r) == Len(r.letters)
        left(r) == Drop(skeys_left, Len(r.skeys))
    IN  MatchesOf(rules, test, start, length, left)

\* Only when the remaining keys begin with a complete stroke; exact stroke lookup.
StrokeMatch(rules, skeys_left, letters_left, all_skeys, all_letters) ==
    LET done == Len(all_skeys) - Len(skeys_left)
        at_start == done = 0 \/ all_skeys[done] = KEY_SEP
        seps == {i \in 1..Len(skeys_left) : skeys_left[i] = KEY_SEP}
        n == IF seps = {} THEN Len(skeys_left)
             ELSE (CHOOSE i \in seps : \A j \in seps : i <= j) - 1
        stroke == SubSeq(skeys_left, 1, n)
        test(r) == at_start /\ r.skeys = stroke /\ Find(letters_left, r.letters) >= 0
        start(r) == Find(letters_left, r.letters)
        length(r) == Len(r.letters)
        left(r) == Drop(skeys_left, n)
    IN  MatchesOf(rules, test, start, length, left)

\* Only when the remaining letters begin a whole word; case-insensitive lookup.
WordMatch(rules, skeys_left, letters_left, all_skeys, all_letters) ==
    LET done == Len(all_letters) - Len(letters_left)
        at_start == done = 0 \/ IsSpace(all_letters[done])
        spaces == {i \in 1..Len(letters_left) : IsSpace(letters_left[i])}
        n == IF spaces = {} THEN Len(letters_left)
             ELSE (CHOOSE i \in spaces : \A j \in spaces : i <= j) - 1
        word == Lower(SubSeq(letters_left, 1, n))
        test(r) == at_start /\ Lower(r.letters) = word /\ StartsWith(skeys_left, r.skeys)
        start(r) == 0
        length(r) == n
        left(r) == Drop(skeys_left, Len(r.skeys))
    IN  MatchesOf(rules, test, start, length, left)

\* Named rules for an end condition: the end of a stroke (the separator is next).
\* The rule is keyed by its name, spells no letters and consumes the separator.
SpecialMatch(rules, skeys_left, letters_left, all_skeys, all_letters) ==
    LET test(r) == skeys_left # <<>> /\ Head(skeys_left) = KEY_SEP /\ r.name = KEY_SEP
        start(r) == 0
        length(r) == 0
        left(r) == Tail(skeys_left)
    IN  MatchesOf(rules, test, start, length, left)

\* IRuleMatcher.match, dispatched on the matcher variant.
Match(matcher, skeys_left, letters_left, all_skeys, all_letters) ==
    CASE matcher.kind = "prefix" ->
            PrefixMatch(matcher.rules, skeys_left, letters_left, all_skeys, all_letters)
      [] matcher.kind = "stroke" ->
            StrokeMatch(matcher.rules, skeys_left, letters_left, all_skeys, all_letters)
      [] matcher.kind = "word" ->
            WordMatch(matcher.rules, skeys_left, letters_left, all_skeys, all_letters)
      [] matcher.kind = "special" ->
            SpecialMatch(matcher.rules, skeys_left, letters_left, all_skeys, all_letters)

\* IRuleMatcher.add
MatcherAdd(matcher, name, keys, ltrs) ==
    [matcher EXCEPT !.rules = Append(@, [name |-> name, skeys |-> keys, letters |-> ltrs])]

(* --------------------------- StenoLexerFactory ------------------------ *)
NewFactory ==
    [prefix_matcher  |-> [kind |-> "prefix",  rules |-> <<>>],
     stroke_matcher  |-> [kind |-> "stroke",  rules |-> <<>>],
     word_matcher    |-> [kind |-> "word",    rules |-> <<>>],
     special_matcher |-> [kind |-> "special", rules |-> <<>>],
     rare_rules      |-> <<>>]

add_rule(f, name, keys, ltrs, flags) ==
    IF SPECIAL \in flags
    THEN [f EXCEPT !.special_matcher = MatcherAdd(@, name, <<>>, <<>>)]
    ELSE IF STROKE \in flags
    THEN [f EXCEPT !.stroke_matcher = MatcherAdd(@, name, keys, ltrs)]
    ELSE IF WORD \in flags
    THEN [f EXCEPT !.word_matcher = MatcherAdd(@, name, keys, ltrs)]
    ELSE [f EXCEPT !.rare_rules = IF RARE \in flags THEN Append(@, name) ELSE @,
                   !.prefix_matcher = MatcherAdd(@, name, keys, ltrs)]

\* StenoLexerFactory.build and StenoLexer.__init__
build(f) ==
    [rule_matchers |-> <<f.prefix_matcher, f.stroke_matcher, f.word_matcher, f.special_matcher>>,
     rare_set      |-> {f.rare_rules[i] : i \in 1..Len(f.rare_rules)}]

\* The names of the rules a factory holds, and how many.
FactoryRules(f) ==
    f.prefix_matcher.rules \o f.stroke_matcher.rules \o f.word_matcher.rules
        \o f.special_matcher.rules

(* ------------------------------ StenoLexer ---------------------------- *)
rare_diff(rare_set, c, o) ==
    (IF c \in rare_set THEN 1 ELSE 0) - (IF o \in rare_set THEN 1 ELSE 0)

\* map(self._rare_diff, current[1::3], other[1::3]): map stops at the shorter one.
RareDiffs(rare_set, cnames, onames) ==
    [i \in 1..Min2(Len(cnames), Len(onames)) |-> rare_diff(rare_set, cnames[i], onames[i])]

\* Python's `a or b` on integers.
Or(a, b) == IF a # 0 THEN a ELSE b

Criteria(rare_set, current, other) ==
    Or(-Len(current[1]) + Len(other[1]),
    Or(Sum(Stride(current, 3, 3)) - Sum(Stride(other, 3, 3)),
    Or(-Sum(RareDiffs(rare_set, Stride(current, 1, 3), Stride(other, 1, 3))),
       -Len(current) + Len(other))))

\* Mutants of keep_better: criteria 1 and 2 in the other order; criterion 4 before
\* criterion 3.
keep_better_letters_first(rare_set, current, other) ==
    IF Or(Sum(Stride(current, 3, 3)) - Sum(Stride(other, 3, 3)),
       Or(-Len(current[1]) + Len(other[1]),
       Or(-Sum(RareDiffs(rare_set, Stride(current, 1, 3), Stride(other, 1, 3))),
          -Len(current) + Len(other)))) >= 0
    THEN current ELSE other

keep_better_count_first(rare_set, current, other) ==
    IF Or(-Len(current[1]) + Len(other[1]),
       Or(Sum(Stride(current, 3, 3)) - Sum(Stride(other, 3, 3)),
       Or(-Len(current) + Len(other),
          -Sum(RareDiffs(rare_set, Stride(current, 1, 3), Stride(other, 1, 3)))))) >= 0
    THEN current ELSE other

keep_better(rare_set, current, other) ==
    IF Criteria(rare_set, current, other) >= 0 THEN current ELSE other

\* reduce(self._keep_better, reversed(states)), from position i down to 1. The state
\* kept at each step is bound as a value, as reduce passes it on.
RECURSIVE Reduce(_, _, _, _)
Reduce(rare_set, acc, states, i) ==
    IF i = 0 THEN acc
    ELSE CHOOSE r \in {Reduce(rare_set, kept, states, i - 1) :
                          kept \in {keep_better(rare_set, acc, states[i])}} : TRUE

find_best(rare_set, states) ==
    Reduce(rare_set, states[Len(states)], states, Len(states) - 1)

\* Mutant of WordPtr: the word pointer never advances.
WordPtrZero(rmap) == 0

\* wordptr = 0 if not rmap else rmap[-2] + rmap[-1]
WordPtr(rmap) == IF rmap = <<>> THEN 0 ELSE rmap[Len(rmap) - 1] + rmap[Len(rmap)]

\* Mutant of NewState: the start of the rule is not moved by wordptr.
NewStateNoOffset(rmap, wordptr, m) == <<m[2]>> \o rmap \o <<m[1], m[3], m[4]>>

\* [unmatched_keys, *rmap, rule, rule_start + wordptr, rule_length]
NewState(rmap, wordptr, m) == <<m[2]>> \o rmap \o <<m[1], m[3] + wordptr, m[4]>>

\* The matches of every matcher, in order, for one queue item.
AllMatches(lx, skeys_left, letters_left, all_skeys, all_letters) ==
    Flatten([k \in 1..Len(lx.rule_matchers) |->
                Match(lx.rule_matchers[k], skeys_left, letters_left, all_skeys, all_letters)])

\* Mutant of Extensions: the matchers are given all the keys, not the keys left.
ExtensionsAllKeys(lx, state, all_skeys, all_letters) ==
    LET skeys_left == Head(state)
        rmap == Tail(state)
        wordptr == WordPtr(rmap)
        letters_left == Drop(all_letters, wordptr)
        matches == AllMatches(lx, all_skeys, letters_left, all_skeys, all_letters)
    IN  IF skeys_left # <<>>
        THEN [k \in 1..Len(matches) |-> NewState(rmap, wordptr, matches[k])]
        ELSE <<>>

\* The body of `for skeys_left, *rmap in q`: the states one queue item appends.
Extensions(lx, state, all_skeys, all_letters) ==
    LET skeys_left == Head(state)
        rmap == Tail(state)
        wordptr == WordPtr(rmap)
        letters_left == Drop(all_letters, wordptr)
        matches == AllMatches(lx, skeys_left, letters_left, all_skeys, all_letters)
    IN  IF skeys_left # <<>>
        THEN [k \in 1..Len(matches) |-> NewState(rmap, wordptr, matches[k])]
        ELSE <<>>

\* The loop of _process run to its end from queue qu with the iterator at item i: the
\* queue that _find_best is given.
RECURSIVE ProcessFrom(_, _, _, _, _)
ProcessFrom(lx, qu, i, all_skeys, all_letters) ==
    IF i > Len(qu) THEN qu
    ELSE CHOOSE r \in {ProcessFrom(lx, grown, i + 1, all_skeys, all_letters) :
                          grown \in {qu \o Extensions(lx, qu[i], all_skeys, all_letters)}} : TRUE

\* _process(skeys, letters)
process(lx, all_skeys, all_letters) ==
    find_best(lx.rare_set, ProcessFrom(lx, << <<all_skeys>> >>, 1, all_skeys, all_letters))

\* Python s[:n]
Take(s, n) == SubSeq(s, 1, Min2(n, Len(s)))

\* The winner _process returns for every translation, in order.
Winners(lx, translations) ==
    [i \in 1..Len(translations) |-> process(lx, translations[i][1], translations[i][2])]

\* Mutant of BestOfEach: every candidate's unmatched keys are cut to nothing.
BestOfEachKeysDropped(winners) ==
    [i \in 1..Len(winners) |-> <<Take(Head(winners[i]), 0)>> \o Tail(winners[i])]

\* best_of_each of find_best_translation: [unmatched_keys[:1], *rulemap_entries] of
\* the winner of every translation.
BestOfEach(winners) ==
    [i \in 1..Len(winners) |-> <<Take(Head(winners[i]), 1)>> \o Tail(winners[i])]

\* Mutant of IndexOf: the position of the last item equal to x.
IndexOfLast(items, x) ==
    (CHOOSE i \in 1..Len(items) : items[i] = x /\ \A j \in (i + 1)..Len(items) : items[j] # x) - 1

\* list.index(x): the 0-based position of the first item equal to x.
IndexOf(items, x) ==
    (CHOOSE i \in 1..Len(items) : items[i] = x /\ \A j \in 1..(i - 1) : items[j] # x) - 1

\* What _find_best raises for no states: the assert, or reduce() of an empty iterable
\* when asserts are compiled out (python -O).
EmptyStatesErrors == {"AssertionError", "TypeError"}

LexerResult(unmatched_skeys, rule_names, rule_positions, rule_lengths) ==
    [unmatched_skeys |-> unmatched_skeys, rule_names |-> rule_names,
     rule_positions |-> rule_positions, rule_lengths |-> rule_lengths]

\* Mutant of QueryResult: match_all_keys is ignored.
QueryResultAlways(best, mak) ==
    LexerResult(Head(best), Stride(Tail(best), 0, 3), Stride(Tail(best), 1, 3),
                Stride(Tail(best), 2, 3))

\* The return statements of query, given the state _process returned.
QueryResult(best, mak) ==
    LET unmatched_skeys == Head(best)
        rulemap == Tail(best)
    IN  IF mak /\ unmatched_skeys # <<>>
        THEN LexerResult(unmatched_skeys, <<>>, <<>>, <<>>)
        ELSE LexerResult(unmatched_skeys, Stride(rulemap, 0, 3), Stride(rulemap, 1, 3),
                         Stride(rulemap, 2, 3))

\* Mutant of caption: the rule names are tested before the unmatched keys.
caption_rules_first(r) ==
    IF r.rule_names # <<>> THEN "Incomplete match. Not reliable."
    ELSE IF r.unmatched_skeys = <<>> THEN "Found complete match."
    ELSE "No matches found."

caption(r) ==
    IF r.unmatched_skeys = <<>> THEN "Found complete match."
    ELSE IF r.rule_names # <<>> THEN "Incomplete match. Not reliable."
    ELSE "No matches found."

(* ------------------------- IndexManager (index.py) --------------------- *)
\* A Python dict is the sequence of its <<key, value>> items in insertion order.
DictKeys(d) == {d[i][1] : i \in 1..Len(d)}

\* d.get(k, default)
DictGet(d, k, default) ==
    IF k \in DictKeys(d) THEN d[CHOOSE i \in 1..Len(d) : d[i][1] = k][2] ELSE default

\* d[k] = v
DictSet(d, k, v) ==
    IF k \in DictKeys(d)
    THEN [i \in 1..Len(d) |-> IF d[i][1] = k THEN <<k, v>> ELSE d[i]]
    ELSE Append(d, <<k, v>>)

\* del d[k]
DictDel(d, k) ==
    LET keep(e) == e[1] # k
    IN  SelectSeq(d, keep)

\* The rules, names, keys and letters of the results given to the index.
IndexRules == {"r1", "r2", "r3"}
IndexNames == {"n1", "n2"}
IndexKeys == {"K1", "K2"}
IndexLetters == {"a", "b"}

\* Python None as a dict key: no name of IndexNames.
NoName == "<None>"

\* The empty reverse rule map (the class attribute _rev_rules = {}).
EmptyMap == [r \in {} |-> NoName]

\* The reverse rule maps: every named rule has its own name.
RevRuleMaps ==
    {m \in UNION {[D -> IndexNames] : D \in SUBSET IndexRules} :
        \A a, b \in DOMAIN m : m[a] = m[b] => a = b}

\* self._rev_rules.get(k)
RevGet(rev, k) == IF k \in DOMAIN rev THEN rev[k] ELSE NoName

\* The lexer results: keys, letters and the rules of the rulemap items.
IndexResults ==
    [keys : IndexKeys, letters : IndexLetters, rulemap : SeqsUpTo(IndexRules, MaxRulemap)]

\* for item in rs.rulemap: tr_dicts[item.rule][keys] = letters
RECURSIVE PutItems(_, _, _, _)
PutItems(tr_dicts, rulemap, keys, ltrs) ==
    IF rulemap = <<>> THEN tr_dicts
    ELSE PutItems(DictSet(tr_dicts, Head(rulemap),
                          DictSet(DictGet(tr_dicts, Head(rulemap), <<>>), keys, ltrs)),
                  Tail(rulemap), keys, ltrs)

\* for rs in results: ...
RECURSIVE TrDicts(_, _)
TrDicts(tr_dicts, results) ==
    IF results = <<>> THEN tr_dicts
    ELSE TrDicts(PutItems(tr_dicts, Head(results).rulemap, Head(results).keys,
                          Head(results).letters),
                 Tail(results))

\* {self._rev_rules.get(k): v for k, v in tr_dicts.items()}
RECURSIVE Renamed(_, _, _)
Renamed(rev, index, items) ==
    IF items = <<>> THEN index
    ELSE Renamed(rev, DictSet(index, RevGet(rev, Head(items)[1]), Head(items)[2]), Tail(items))

\* Mutant of compile_results: the None key is kept.
compile_results_keep_none(rev, results) == Renamed(rev, <<>>, TrDicts(<<>>, results))

\* IndexManager._compile_results
compile_results(rev, results) ==
    LET index == Renamed(rev, <<>>, TrDicts(<<>>, results))
    IN  IF NoName \in DictKeys(index) THEN DictDel(index, NoName) ELSE index

\* _compile_results has not been called.
NotCompiled == [status |-> "none", results |-> <<>>, index |-> <<>>]

(* --------------------- StenoRuleParser (rule_parser.py) ---------------- *)
\* Strings are sequences of characters; a dict is the sequence of its items.
LEFT_BRACKETS == {"(", "["}
RIGHT_BRACKETS == {")", "]"}

\* SUBRULE_RX at position i of the pattern (1-based): the position of the right bracket
\* that ends the match, or 0 when there is no match at i. Between the brackets there is
\* at least one character and no bracket.
SubruleEnd(pattern, i) ==
    LET later == {j \in (i + 1)..Len(pattern) : pattern[j] \in LEFT_BRACKETS \cup RIGHT_BRACKETS}
        j == CHOOSE x \in later : \A y \in later : x <= y
    IN  IF pattern[i] \notin LEFT_BRACKETS \/ later = {} THEN 0
        ELSE IF pattern[j] \in RIGHT_BRACKETS /\ j >= i + 2 THEN j ELSE 0

\* SUBRULE_RX.search(pattern): <<first, last>> positions (1-based) of the leftmost
\* match, or <<0, 0>> for no match.
SubruleSearch(pattern) ==
    LET starts == {i \in 1..Len(pattern) : SubruleEnd(pattern, i) # 0}
        i == CHOOSE x \in starts : \A y \in starts : x <= y
    IN  IF starts = {} THEN <<0, 0>> ELSE <<i, SubruleEnd(pattern, i)>>

\* str.replace(old, new): every occurrence of old, left to right.
RECURSIVE Replace(_, _, _)
Replace(str, old, new) ==
    IF Len(str) < Len(old) THEN str
    ELSE IF StartsWith(str, old) THEN new \o Replace(Drop(str, Len(old)), old, new)
    ELSE <<Head(str)>> \o Replace(Tail(str), old, new)

\* StenoKeys.from_rtfcre / to_rtfcre: a fixed table, character by character.
FromRtfcreChar(c) == IF c = "A" THEN "a" ELSE IF c = "B" THEN "b" ELSE IF c = "C" THEN "c" ELSE c
ToRtfcreChar(c) == IF c = "a" THEN "A" ELSE IF c = "b" THEN "B" ELSE IF c = "c" THEN "C" ELSE c
from_rtfcre(str) == [i \in 1..Len(str) |-> FromRtfcreChar(str[i])]
to_rtfcre(str) == [i \in 1..Len(str) |-> ToRtfcreChar(str[i])]

\* frozenset(filter(None, flag_str.split("|"))): the non-empty pieces between the bars.
RECURSIVE SplitBar(_, _)
SplitBar(str, piece) ==
    IF str = <<>> THEN <<piece>>
    ELSE IF Head(str) = "|" THEN <<piece>> \o SplitBar(Tail(str), <<>>)
    ELSE SplitBar(Tail(str), Append(piece, Head(str)))

ParseFlags(flag_str) ==
    {x \in {SplitBar(flag_str, <<>>)[i] : i \in 1..Len(SplitBar(flag_str, <<>>))} : x # <<>>}

\* StenoRule.key_rules(flags): the ending rule of every key flag, from a fixed table.
KEY_FLAGS == {<<"*">>}
KeyRule(flag) ==
    [keys |-> <<>>, letters |-> <<>>, flags |-> {}, desc |-> flag, rulemap |-> <<>>]
key_rules(flags) ==
    LET hit == flags \cap KEY_FLAGS
    IN  IF hit = {} THEN <<>> ELSE <<KeyRule(CHOOSE f \in hit : TRUE)>>

\* RuleMap.add(rule, start, length) and RuleMap.add_special(rule, start).
RuleMapAdd(map, rule, start, length) ==
    Append(map, [rule |-> rule, start |-> start, length |-> length])
RuleMapAddSpecial(map, rule, start) == RuleMapAdd(map, rule, start, 0)

StenoRule(keys, ltrs, flags, desc, rulemap) ==
    [keys |-> keys, letters |-> ltrs, flags |-> flags, desc |-> desc, rulemap |-> rulemap]

\* The deepest nesting of _parse calls that the interpreter allows.
RecursionLimit == 4

RawRule(keys, pattern, flag_str, description, example_str) ==
    [keys |-> keys, pattern |-> pattern, flag_str |-> flag_str, description |-> description,
     example_str |-> example_str]

\* description, with the examples (if any) on a line after it, joined with commas.
Described(raw_rule) ==
    IF raw_rule.example_str = <<>> THEN raw_rule.description
    ELSE raw_rule.description \o <<"\n", "(">>
             \o Replace(raw_rule.example_str, <<"|">>, <<",", " ">>) \o <<")">>

\* The pieces of a bracket token m.group(): whether its brackets are round, the text
\* between them, the text before the bar (None for round brackets) and the reference.
TokenRound(rule_str) == rule_str[1] = "("

TokenInner(rule_str) == SubSeq(rule_str, 2, Len(rule_str) - 1)

TokenBar(rule_str) == Find(TokenInner(rule_str), <<"|">>)

TokenVisible(rule_str) ==
    IF TokenRound(rule_str) THEN <<>>
    ELSE SubSeq(TokenInner(rule_str), 1, TokenBar(rule_str))

TokenKey(rule_str) ==
    IF TokenRound(rule_str) THEN TokenInner(rule_str)
    ELSE Drop(TokenInner(rule_str), TokenBar(rule_str) + 1)

\* if not letters: letters = rule.letters  (None and "" are both false)
TokenLetters(visible, rule) == IF visible = <<>> THEN rule.letters ELSE visible

\* m.start(), for the token found at the 1-based place `first`; and m.end() of the
\* character before it taken for the start.
TokenStartOneBased(first) == first
TokenStart(first) == first - 1

\* if specials: built_map.add_special(specials[0], len(letters))
ParsedMap(sub, flags) ==
    IF key_rules(flags) = <<>> THEN sub.built_map
    ELSE RuleMapAddSpecial(sub.built_map, key_rules(flags)[1], Len(sub.pattern))

\* raise KeyError("Illegal reference: ..."), and the same line with the raise left out.
UnknownReferenceIgnored == ""
UnknownReference == "KeyError"

\* What _substitute returns or raises.
Substituted(self, err, pattern, built_map) ==
    [self |-> self, err |-> err, pattern |-> pattern, built_map |-> built_map]

\* _parse(k) stores the rule of the entry k, parsing the entries it refers to first;
\* _substitute(pattern) resolves the bracket tokens of a pattern from the left, and
\* substitute_token is the body of its loop for the token rule_str found at `first`.
\* `depth` counts the _parse calls that are active.
RECURSIVE parse(_, _, _, _), substitute(_, _, _, _, _), substitute_token(_, _, _, _, _, _, _)
substitute(self, src_dict, pattern, built_map, depth) ==
    CHOOSE r \in {IF m[1] = 0 THEN Substituted(self, "", pattern, built_map)
                  ELSE substitute_token(self, src_dict, pattern, built_map, depth, m[1],
                                        SubSeq(pattern, m[1], m[2]))
                    : m \in {SubruleSearch(pattern)}} : TRUE

substitute_token(self, src_dict, pattern, built_map, depth, first, rule_str) ==
    IF ~TokenRound(rule_str) /\ TokenBar(rule_str) < 0
    THEN Substituted(self, "ValueError", pattern, built_map)
    ELSE IF TokenKey(rule_str) \in DictKeys(self)
    THEN CHOOSE r \in {substitute(self, src_dict, Replace(pattern, rule_str, ltrs),
                                  RuleMapAdd(built_map,
                                             DictGet(self, TokenKey(rule_str), <<>>),
                                             TokenStart(first), Len(ltrs)),
                                  depth)
                         : ltrs \in {TokenLetters(TokenVisible(rule_str),
                                                  DictGet(self, TokenKey(rule_str), <<>>))}}
             : TRUE
    ELSE IF TokenKey(rule_str) \notin DictKeys(src_dict)
    THEN Substituted(self, UnknownReference, pattern, built_map)
    ELSE CHOOSE r \in {IF child.err # ""
                       THEN Substituted(child.self, child.err, pattern, built_map)
                       ELSE substitute(child.self, src_dict, pattern, built_map, depth)
                         : child \in {parse(self, src_dict, TokenKey(rule_str), depth + 1)}}
             : TRUE

parse(self, src_dict, k, depth) ==
    IF depth > RecursionLimit THEN [self |-> self, err |-> "RecursionError"]
    ELSE CHOOSE r \in {IF sub.err # "" THEN [self |-> sub.self, err |-> sub.err]
                       ELSE [self |-> DictSet(sub.self, k,
                                        StenoRule(from_rtfcre(DictGet(src_dict, k, <<>>).keys),
                                                  sub.pattern,
                                                  ParseFlags(DictGet(src_dict, k, <<>>).flag_str),
                                                  Described(DictGet(src_dict, k, <<>>)),
                                                  ParsedMap(sub, ParseFlags(DictGet(src_dict, k, <<>>).flag_str)))),
                             err |-> ""]
                         : sub \in {substitute(self, src_dict,
                                               DictGet(src_dict, k, <<>>).pattern, <<>>, depth)}}
             : TRUE

\* for k in self._src_dict.keys(): if k not in self: self._parse(k)
RECURSIVE ParseAll(_, _, _)
ParseAll(self, src_dict, i) ==
    IF i > Len(src_dict) THEN [self |-> self, err |-> ""]
    ELSE IF src_dict[i][1] \in DictKeys(self) THEN ParseAll(self, src_dict, i + 1)
    ELSE LET done == parse(self, src_dict, src_dict[i][1], 1)
         IN  IF done.err # "" THEN done ELSE ParseAll(done.self, src_dict, i + 1)

\* StenoRuleParser.from_raw: the parser is cleared, then every entry is parsed.
from_raw(src_dict) == ParseAll(<<>>, src_dict, 1)

\* list(self.values())
DictValues(d) == [i \in 1..Len(d) |-> d[i][2]]

\* {v: k for (k, v) in self.items()}
RECURSIVE Inverted(_, _)
Inverted(ref_dict, items) ==
    IF items = <<>> THEN ref_dict
    ELSE Inverted(DictSet(ref_dict, Head(items)[2], Head(items)[1]), Tail(items))

\* str(None), the name put in a pattern for a rule without a name.
NoneText == <<"N", "o", "n", "e">>

\* bool(r) of a rulemap item's rule: a StenoRule is a non-empty tuple, only None is false.
Falsy(r) == r = None

\* _inv_substitute: from the right, the letters of every item whose rule is not false
\* and whose length is not zero are replaced by the name, as str.format prints it, in
\* round brackets.
RECURSIVE inv_substitute(_, _, _, _)
inv_substitute(ref_dict, ltrs, rulemap, i) ==
    IF i = 0 THEN ltrs
    ELSE LET item == rulemap[i]
             name == DictGet(ref_dict, item.rule, NoneText)
             end == item.start + item.length
         IN  IF Falsy(item.rule) THEN inv_substitute(ref_dict, ltrs, rulemap, i - 1)
             ELSE IF item.start = end THEN inv_substitute(ref_dict, ltrs, rulemap, i - 1)
             ELSE inv_substitute(ref_dict,
                                 SubSeq(ltrs, 1, item.start) \o <<"(">> \o name \o <<")">>
                                     \o Drop(ltrs, end),
                                 rulemap, i - 1)

\* "|".join(r.flags)
RECURSIVE JoinBar(_)
JoinBar(flags) ==
    IF flags = {} THEN <<>>
    ELSE LET f == CHOOSE x \in flags : TRUE
         IN  IF flags = {f} THEN f ELSE f \o <<"|">> \o JoinBar(flags \ {f})

inv_parse(ref_dict, r) ==
    RawRule(to_rtfcre(r.keys), inv_substitute(ref_dict, r.letters, r.rulemap, Len(r.rulemap)),
            JoinBar(r.flags), r.desc, <<>>)

\* str(r): the id of a rule, the dictionary key of a library rule.
RuleId(ref_dict, r) == DictGet(ref_dict, r, r.keys \o <<" ">> \o r.letters)

\* StenoRuleParser.to_raw
RECURSIVE ToRawItems(_, _, _)
ToRawItems(ref_dict, out, rules) ==
    IF rules = <<>> THEN out
    ELSE ToRawItems(ref_dict, DictSet(out, RuleId(ref_dict, Head(rules)),
                                      inv_parse(ref_dict, Head(rules))),
                    Tail(rules))

to_raw(self, rules) == ToRawItems(Inverted(<<>>, self), <<>>, rules)

\* The names of the entries and of the references, in the order of the entries.
ParserNames == << <<"A">>, <<"B">>, <<"C">> >>

\* The items of a pattern: a letter, (name), [y|name] and [|name].
PatternItems ==
    { <<"x">> }
        \cup { <<"(">> \o ParserNames[n] \o <<")">> : n \in 1..Len(ParserNames) }
        \cup { <<"[", "y", "|">> \o ParserNames[n] \o <<"]">> : n \in 1..Len(ParserNames) }
        \cup { <<"[", "|">> \o ParserNames[n] \o <<"]">> : n \in 1..Len(ParserNames) }

PatternPool == {Flatten(items) : items \in SeqsUpTo(PatternItems, MaxTokens)}

FlagStrPool == { <<>>, <<"*">> }

\* A source dict: entry i is named ParserNames[i] and has that name as its keys.
SrcDict(patterns, flag_strs) ==
    [i \in 1..Len(patterns) |->
        <<ParserNames[i], RawRule(ParserNames[i], patterns[i], flag_strs[i], <<>>, <<>>)>>]

\* No call has been made on the parser.
NotParsing ==
    [phase |-> "idle", src |-> <<>>, err |-> "", rules |-> <<>>, first |-> <<>>, raw |-> <<>>]

(* ----------------------------- Canvas (graph.py) ------------------------ *)
\* The grid is a sequence of rows, every row a sequence of elements; Python's row and
\* column r, c are the places r + 1, c + 1 here.
MaxRows == 2
MaxCols == 3
MaxGraphCols == 6
MaxDepth == 2
MaxCalls == 2

\* The empty element of the canvas and the elements that the calls write.
EMPTY == " "
CanvasElements == {"a", "b"}

NoCanvas == [grid |-> <<>>, empty |-> EMPTY, row_offset |-> 0, col_offset |-> 0]

\* Canvas.__init__: nrows rows of ncols empty elements, each row a list of its own.
NewCanvas(nrows, ncols, empty) ==
    [grid |-> [i \in 1..nrows |-> [j \in 1..ncols |-> empty]],
     empty |-> empty, row_offset |-> 0, col_offset |-> 0]

\* Canvas._shift_rows: nrows empty rows are put above the grid (first, without the
\* line that adds nrows to the offset).
shift_rows_offset_kept(cv, nrows) ==
    [cv EXCEPT !.grid = [i \in 1..nrows |-> [j \in 1..Len(cv.grid[1]) |-> cv.empty]] \o @]

shift_rows(cv, nrows) ==
    [cv EXCEPT !.row_offset = @ + nrows,
               !.grid = [i \in 1..nrows |-> [j \in 1..Len(cv.grid[1]) |-> cv.empty]] \o @]

\* Canvas._shift_cols: ncols empty elements are put at the left of every row.
shift_cols(cv, ncols) ==
    [cv EXCEPT !.col_offset = @ + ncols,
               !.grid = [i \in 1..Len(cv.grid) |-> [j \in 1..ncols |-> cv.empty] \o cv.grid[i]]]

\* The first lines of write and write_row: the offsets are added to row and col, and
\* the grid is shifted when one of them is negative. Gives the canvas and the place.
Placed(cv, row, col) ==
    LET byrow == IF row + cv.row_offset < 0 THEN shift_rows(cv, -(row + cv.row_offset)) ELSE cv
        r == IF row + cv.row_offset < 0 THEN 0 ELSE row + cv.row_offset
        bycol == IF col + byrow.col_offset < 0
                 THEN shift_cols(byrow, -(col + byrow.col_offset)) ELSE byrow
        c == IF col + byrow.col_offset < 0 THEN 0 ELSE col + byrow.col_offset
    IN  [cv |-> bycol, row |-> r, col |-> c]

\* self._grid[row][col] = el, or IndexError when the place is outside the grid.
SetItem(cv, row, col, el) ==
    IF row >= Len(cv.grid) \/ col >= Len(cv.grid[1])
    THEN [cv |-> cv, err |-> "IndexError"]
    ELSE [cv |-> [cv EXCEPT !.grid[row + 1][col + 1] = el], err |-> ""]

\* Canvas.write
write(cv, el, row, col) ==
    LET at == Placed(cv, row, col) IN SetItem(at.cv, at.row, at.col, el)

\* for s in seq: r[col] = s; col += 1
RECURSIVE WriteSeq(_, _, _, _)
WriteSeq(cv, seq, row, col) ==
    IF seq = <<>> THEN [cv |-> cv, err |-> ""]
    ELSE LET one == SetItem(cv, row, col, Head(seq))
         IN  IF one.err # "" THEN one ELSE WriteSeq(one.cv, Tail(seq), row, col + 1)

\* Canvas.write_row
write_row(cv, seq, row, col) ==
    LET at == Placed(cv, row, col)
    IN  IF at.row >= Len(at.cv.grid) THEN [cv |-> at.cv, err |-> "IndexError"]
        ELSE WriteSeq(at.cv, seq, at.row, at.col)

\* Canvas.replace_empty: every element of the row that is the empty element becomes
\* repl (the row must be in the grid).
replace_empty(cv, repl, row) ==
    [cv EXCEPT !.grid[row + cv.row_offset + 1] =
                   [j \in 1..Len(@) |-> IF @[j] = cv.empty THEN repl ELSE @[j]]]

\* No call has been made on the canvas. `written` holds <<row, col, el>> for the
\* element el last written at the caller's row and col.
NoCanvasLog == [op |-> "none", row |-> 0, col |-> 0, n |-> 0, err |-> "", written |-> {}]

\* The elements seq written from the caller's row and col on, as far as the grid of
\* cv reaches, replace what was written at their places before.
Logged(written, cv, seq, row, col) ==
    LET hit == {k \in 1..Len(seq) :
                   /\ row + cv.row_offset < Len(cv.grid)
                   /\ col + k - 1 + cv.col_offset < Len(cv.grid[1])}
    IN  {w \in written : ~(w[1] = row /\ w[2] \in {col + k - 1 : k \in hit})}
            \cup {<<row, col + k - 1, seq[k]>> : k \in hit}

(* -------------------------------- graph -------------------------------- *)
\* The columns a graph may use: the keys of the `successors` dicts.
GraphColumns == 0..(MaxGraphCols - 1)

\* GridElement(char, ref, depth, bold_at, triggers): one printed character with the
\* ref of its owner, its depth, its bold threshold and its trigger set.
GridElement(char, ref, depth, bold_at, triggers) ==
    [char |-> char, ref |-> ref, depth |-> depth, bold_at |-> bold_at, triggers |-> triggers]

\* GridElement(char): an element that is given a character only has no owner and an
\* empty trigger set.
GridElementOf(char) == GridElement(char, "", 0, 0, {})

\* ElementCanvas._EMPTY = GridElement(" ", "", False, None); None is written -1.
ElementEmpty == GridElement(" ", "", 0, -1, {})

\* GraphNode.__init__: the body (its text, is_separator, is_always_bold), the span
\* of the attachment to the parent, and the ref. The connectors are the same
\* strategy for every node.
GraphNode(ref, text, tstart, tlen, separator, always_bold) ==
    [ref |-> ref, text |-> text, attach_start |-> tstart, attach_length |-> tlen,
     separator |-> separator, always_bold |-> always_bold]

\* IBody.text(col): the column where the text starts, and the text.
BodyText(node, col) == <<col, node.text>>

\* IConnectors.strlist(height): `height` strings, here one bar each.
Strlist(height) == [i \in 1..height |-> <<"|">>]

Largest(S) == CHOOSE x \in S : \A y \in S : y <= x

\* GraphLayout: the node, its top and left relative to the parent's, the bottom and
\* right of the node with everything below it, and the layouts of the children.
\* left is start_col(), the body is one row high.
GraphLayout(node, top, sublayouts) ==
    [node |-> node, top |-> top, left |-> node.attach_start,
     bottom |-> top + Largest({1} \cup {sublayouts[i].bottom : i \in 1..Len(sublayouts)}),
     right |-> node.attach_start
                  + Largest({Len(node.text)} \cup {sublayouts[i].right : i \in 1..Len(sublayouts)}),
     sublayouts |-> sublayouts]

\* successors = defaultdict(set)
NoSuccessors == [c \in GraphColumns |-> {}]

\* for i, s in triggers.items(): successors[i].update(s)
Updated(successors, triggers) == [c \in GraphColumns |-> successors[c] \cup triggers[c]]

\* GraphNode.iter_elements, the loop over range(attach_length)
AttachAdded(node, col, successors) ==
    [c \in GraphColumns |->
        IF c \in col..(col + node.attach_length - 1) THEN successors[c] \cup {node.ref}
        ELSE successors[c]]

\* GraphNode.iter_elements, the loop over the text: the cells of the body.
BodyElements(node, bottom_row, col, successors) ==
    LET bcol == BodyText(node, col)[1]
        text == BodyText(node, col)[2]
    IN  [k \in 1..Len(text) |->
            [row |-> bottom_row, col |-> bcol + k - 1, char |-> text[k], ref |-> node.ref,
             bold_at |-> 1 - (IF node.always_bold THEN 1 ELSE 0),
             triggers |-> {node.ref} \cup successors[bcol + k - 1]]]

\* GraphNode.iter_elements, the loop over the connectors, when height is not zero.
ConnectorElements(node, top_row, bottom_row, col, successors) ==
    LET height == bottom_row - top_row
        strs == IF height > 0 THEN Strlist(height) ELSE <<>>
    IN  [i \in 1..Len(strs) |->
            [row |-> top_row + i - 1, col |-> col, char |-> strs[i][1], ref |-> node.ref,
             bold_at |-> 100,
             triggers |-> {node.ref} \cup UNION {successors[c] : c \in GraphColumns}]]

\* GraphNode.iter_elements: the elements it yields, in order, and the successors
\* dict as it leaves it.
iter_elements(node, top_row, bottom_row, col, successors) ==
    LET added == AttachAdded(node, col, successors)
    IN  [elements |-> BodyElements(node, bottom_row, col, added)
                          \o ConnectorElements(node, top_row, bottom_row, col, added),
         successors |-> added]

\* for row, col, char, ref, bold_at, triggers in it: self.write(elem, row, col)
RECURSIVE WriteElements(_, _, _)
WriteElements(cv, elements, depth) ==
    IF elements = <<>> THEN [cv |-> cv, err |-> ""]
    ELSE LET e == Head(elements)
             one == write(cv, GridElement(e.char, e.ref, depth, e.bold_at, e.triggers),
                          e.row, e.col)
         IN  IF one.err # "" THEN one ELSE WriteElements(one.cv, Tail(elements), depth)

\* The branch of _write_from_layout for a separator: the first element of the
\* iterator gives the row and the character.
WriteSeparator(cv, elements) ==
    IF elements = <<>> THEN [cv |-> cv, err |-> "StopIteration"]
    ELSE [cv |-> replace_empty(cv, GridElementOf(elements[1].char), elements[1].row),
          err |-> ""]

\* _write_from_layout after the loop over the sublayouts.
WriteNode(cv, node, parent_top, top, left, depth, successors) ==
    LET it == iter_elements(node, parent_top, top, left, successors)
        done == IF node.separator THEN WriteSeparator(cv, it.elements)
                ELSE WriteElements(cv, it.elements, depth)
    IN  [cv |-> done.cv, successors |-> it.successors, err |-> done.err]

\* ElementCanvas._write_from_layout, and its loop over layout.sublayouts
RECURSIVE write_from_layout(_, _, _, _, _), write_sublayouts(_, _, _, _, _, _)
write_sublayouts(cv, sublayouts, top, left, depth, successors) ==
    IF sublayouts = <<>> THEN [cv |-> cv, successors |-> successors, err |-> ""]
    ELSE LET one == write_from_layout(cv, Head(sublayouts), top, left, depth + 1)
         IN  IF one.err # "" THEN one
             ELSE write_sublayouts(one.cv, Tail(sublayouts), top, left, depth,
                                   Updated(successors, one.successors))

write_from_layout(cv, layout, parent_top, parent_left, depth) ==
    LET subs == write_sublayouts(cv, layout.sublayouts, parent_top + layout.top,
                                 parent_left + layout.left, depth, NoSuccessors)
    IN  IF subs.err # "" THEN subs
        ELSE WriteNode(subs.cv, layout.node, parent_top, parent_top + layout.top,
                       parent_left + layout.left, depth, subs.successors)

\* ElementCanvas.from_layout
from_layout(layout) ==
    write_from_layout(NewCanvas(layout.bottom, layout.right, ElementEmpty), layout, 0, 0, 0)

\* No layout has been drawn.
NoLayout == GraphLayout(GraphNode("", <<>>, 0, 0, FALSE, FALSE), 0, <<>>)

NotDrawn == [status |-> "none", layout |-> NoLayout,
             cv |-> [NoCanvas EXCEPT !.empty = ElementEmpty], err |-> ""]

(* ----------------------------- application ----------------------------- *)
\* The threads that may run Application.call on the one application.
Threads == 1..2

\* The exceptions a command function may raise.
Exceptions == {"KeyError", "ValueError"}

\* No command has ended in the thread yet. `kind` tells how the last `with self`
\* block of a command ended, `level` how many blocks of the thread were open then,
\* `handled` whether new_exception was called with the exception, `value` what it
\* returned.
NoEvent == [kind |-> "none", exc |-> "", level |-> 0, handled |-> FALSE, value |-> FALSE]

\* A thread outside Application.call. `depth` counts the `with self` blocks of
\* commands the thread has open, `tmp` is the value of _rlevel it has loaded for
\* `+= 1` or `-= 1`, `exc` the exception on its way, `raised_at` the depth where it
\* was raised, `in_handler` whether the thread is inside call("new_exception", ...).
IdleThread ==
    [pc |-> "idle", depth |-> 0, tmp |-> 0, exc |-> "", raised_at |-> 0,
     in_handler |-> FALSE, calls |-> 0, last |-> NoEvent]

\* __exit__: `not self._rlevel`, first as a mutant that holds at every level.
AtAnyLevel(level) == TRUE

AtTopLevel(level) == level = 0

\* How a thread goes on when a `with self` block at depth `depth` has ended: inside
\* the enclosing command, raising there when the exception was not suppressed, or
\* outside Application.call.
After(th, depth, exc, event) ==
    [th EXCEPT !.depth = depth - 1,
               !.pc = IF depth - 1 = 0 THEN "idle" ELSE IF exc # "" THEN "raising" ELSE "running",
               !.exc = IF depth - 1 = 0 THEN "" ELSE exc,
               !.in_handler = FALSE,
               !.last = event]

(* ------------------------------- actions ------------------------------ *)
\* No call of find_best_translation has been made.
NoTranslation ==
    [status |-> "none", translations |-> <<>>, winners |-> <<>>, best_of_each |-> <<>>,
     index |-> -1]

Init ==
    /\ factory = NewFactory
    /\ lexer = None
    /\ pc = "factory"
    /\ skeys = <<>>
    /\ letters = <<>>
    /\ match_all_keys = FALSE
    /\ q = <<>>
    /\ idx = 0
    /\ result = None
    /\ memo = <<>>
    /\ fbt = NoTranslation
    /\ rev_rules = EmptyMap
    /\ compiled = NotCompiled
    /\ parser = <<>>
    /\ parsing = NotParsing
    /\ canvas = NoCanvas
    /\ canvas_log = NoCanvasLog
    /\ drawn = NotDrawn
    /\ rlevel = 0
    /\ threads = [t \in Threads |-> IdleThread]

\* factory.add_rule(name, skeys, letters, flags); rules are added in pool order.
AddRule(i) ==
    /\ pc = "factory"
    /\ Len(FactoryRules(factory)) < MaxRules
    /\ \A j \in i..Len(RulePool) :
          RulePool[j].name \notin {FactoryRules(factory)[k].name : k \in 1..Len(FactoryRules(factory))}
    /\ factory' = add_rule(factory, RulePool[i].name, RulePool[i].skeys,
                           RulePool[i].letters, RulePool[i].flags)
    /\ UNCHANGED <<lexer, pc, skeys, letters, match_all_keys, q, idx, result, memo>>
    /\ UNCHANGED other_vars

\* lexer = factory.build()
Build ==
    /\ pc = "factory"
    /\ lexer' = build(factory)
    /\ pc' = "idle"
    /\ UNCHANGED <<factory, skeys, letters, match_all_keys, q, idx, result, memo>>
    /\ UNCHANGED other_vars

\* lexer.query(sk, lt, match_all_keys=mak) is called: q = [[skeys]].
Query(sk, lt, mak) ==
    /\ pc = "idle"
    /\ skeys' = sk
    /\ letters' = lt
    /\ match_all_keys' = mak
    /\ q' = << <<sk>> >>
    /\ idx' = 1
    /\ pc' = "process"
    /\ UNCHANGED <<factory, lexer, result, memo>>
    /\ UNCHANGED other_vars

\* One iteration of `for skeys_left, *rmap in q`.
ProcessStep ==
    /\ pc = "process"
    /\ idx <= Len(q)
    /\ \E put \in {Extensions(lexer, q[idx], skeys, letters)} : q' = q \o put
    /\ idx' = idx + 1
    /\ UNCHANGED <<factory, lexer, pc, skeys, letters, match_all_keys, result, memo>>
    /\ UNCHANGED other_vars

\* Mutant of Return: the query marks the rules of its winner as rare.
ReturnLearnsRare ==
    /\ pc = "process"
    /\ idx > Len(q)
    /\ \E best \in {find_best(lexer.rare_set, q)} :
          /\ result' = QueryResult(best, match_all_keys)
          /\ lexer' = [lexer EXCEPT !.rare_set =
                          @ \cup {best[i] : i \in {j \in 2..Len(best) : j % 3 = 2}}]
    /\ pc' = "done"
    /\ UNCHANGED <<factory, skeys, letters, match_all_keys, q, idx, memo>>
    /\ UNCHANGED other_vars

\* The loop is over: return self._find_best(q), and query builds its result.
Return ==
    /\ pc = "process"
    /\ idx > Len(q)
    /\ \E best \in {find_best(lexer.rare_set, q)} :
          result' = QueryResult(best, match_all_keys)
    /\ pc' = "done"
    /\ UNCHANGED <<factory, lexer, skeys, letters, match_all_keys, q, idx, memo>>
    /\ UNCHANGED other_vars

\* The caller has the result; the arguments and locals of the call are gone.
Release ==
    /\ pc = "done"
    /\ pc' = "idle"
    /\ skeys' = <<>>
    /\ letters' = <<>>
    /\ match_all_keys' = FALSE
    /\ q' = <<>>
    /\ idx' = 0
    /\ result' = None
    /\ UNCHANGED <<factory, lexer, memo>>
    /\ UNCHANGED other_vars

\* The caller keeps the arguments and the result of a call on the probe translation as
\* the call returns, to compare a later call with it.
ProbeSkeys == <<"H", "E">>
ProbeLetters == <<"h", "e">>

Remember ==
    /\ pc = "done"
    /\ memo = <<>>
    /\ skeys = ProbeSkeys
    /\ letters = ProbeLetters
    /\ memo' = <<skeys, letters, match_all_keys, result>>
    /\ pc' = "idle"
    /\ skeys' = <<>>
    /\ letters' = <<>>
    /\ match_all_keys' = FALSE
    /\ q' = <<>>
    /\ idx' = 0
    /\ result' = None
    /\ UNCHANGED <<factory, lexer>>
    /\ UNCHANGED other_vars

\* The candidate translations: single strokes and the letters of the queries.
TranslationPool ==
    SeqsUpTo(KeyChars \ {KEY_SEP}, MaxKeys) \X SeqsUpTo(LetterChars, MaxLetters)

\* The outcome of find_best_translation once every translation has its winner.
\* Mutant: no states is no error, and index 0 is returned.
TranslationOutcomeLenient(rare_set, trs, winners, boe) ==
    {[status |-> "returned", translations |-> trs, winners |-> winners, best_of_each |-> boe,
      index |-> IF boe = <<>> THEN 0 ELSE IndexOf(boe, find_best(rare_set, boe))]}

\* The outcomes: the index of the best of best_of_each, or what _find_best raises.
TranslationOutcome(rare_set, trs, winners, boe) ==
    IF boe = <<>>
    THEN {[status |-> err, translations |-> trs, winners |-> winners, best_of_each |-> boe,
           index |-> -1] : err \in EmptyStatesErrors}
    ELSE {[status |-> "returned", translations |-> trs, winners |-> winners,
           best_of_each |-> boe, index |-> IndexOf(boe, find_best(rare_set, boe))]}

\* lexer.find_best_translation(trs): returns an index, or raises.
FindBestTranslation(trs) ==
    /\ pc = "idle"
    /\ \E winners \in {Winners(lexer, trs)} :
          \E boe \in {BestOfEach(winners)} :
              fbt' \in TranslationOutcome(lexer.rare_set, trs, winners, boe)
    /\ pc' = "translated"
    /\ UNCHANGED <<factory, lexer, skeys, letters, match_all_keys, q, idx, result, memo>>
    /\ UNCHANGED <<index_vars, parser_vars, later_vars>>

\* The caller has the outcome of find_best_translation.
ReleaseTranslation ==
    /\ pc = "translated"
    /\ pc' = "idle"
    /\ fbt' = NoTranslation
    /\ UNCHANGED <<factory, lexer, skeys, letters, match_all_keys, q, idx, result, memo>>
    /\ UNCHANGED <<index_vars, parser_vars, later_vars>>

Next ==
    \/ \E i \in 1..Len(RulePool) : AddRule(i)
    \/ Build
    \/ \E sk \in SeqsUpTo(KeyChars, MaxKeys), lt \in SeqsUpTo(LetterChars, MaxLetters),
          mak \in BOOLEAN : Query(sk, lt, mak)
    \/ ProcessStep
    \/ Return
    \/ Release

Spec == Init /\ [][Next]_vars

\* _process is a sequential loop: an iteration that can run does run, and so does the
\* return that follows the loop.
FairSpec == Spec /\ WF_vars(ProcessStep) /\ WF_vars(Return)

NextIdem == Next \/ Remember

IdemSpec == Init /\ [][NextIdem]_vars

\* IndexManager.set_system(system): the reverse rule map of the system is taken.
SetSystem(rev) ==
    /\ compiled.status = "none"
    /\ rev_rules' = rev
    /\ UNCHANGED <<lexer_vars, compiled, parser_vars, later_vars>>

\* index = self._compile_results(results)
CompileResults(results) ==
    /\ compiled.status = "none"
    /\ compiled' = [status |-> "returned", results |-> results,
                    index |-> compile_results(rev_rules, results)]
    /\ UNCHANGED <<lexer_vars, rev_rules, parser_vars, later_vars>>

\* The caller has the index.
ReleaseIndex ==
    /\ compiled.status = "returned"
    /\ compiled' = NotCompiled
    /\ UNCHANGED <<lexer_vars, rev_rules, parser_vars, later_vars>>

NextIndex ==
    \/ \E rev \in RevRuleMaps : SetSystem(rev)
    \/ /\ compiled.status = "none"
       /\ \E results \in SeqsUpTo(IndexResults, MaxResults) : CompileResults(results)
    \/ ReleaseIndex

IndexSpec == Init /\ [][NextIndex]_vars

\* rules = parser.from_raw(src): the rules are returned, or the error is raised.
FromRaw(src) ==
    /\ parsing.phase = "idle"
    /\ \E done \in {from_raw(src)} :
          /\ parser' = done.self
          /\ parsing' = [parsing EXCEPT
                            !.phase = IF done.err = "" THEN "parsed" ELSE "failed",
                            !.src = src,
                            !.err = done.err,
                            !.rules = IF done.err = "" THEN DictValues(done.self) ELSE <<>>]
    /\ UNCHANGED <<lexer_vars, index_vars, later_vars>>

\* raw = parser.to_raw(rules), with the rules that from_raw returned.
ToRaw ==
    /\ parsing.phase = "parsed"
    /\ parsing' = [parsing EXCEPT !.phase = "exported", !.raw = to_raw(parser, parsing.rules)]
    /\ UNCHANGED <<lexer_vars, index_vars, parser, later_vars>>

\* parser.from_raw(raw): the output of to_raw is parsed again; the caller still has
\* the dict of the first parse.
Reparse ==
    /\ parsing.phase = "exported"
    /\ \E done \in {from_raw(parsing.raw)} :
          /\ parser' = done.self
          /\ parsing' = [parsing EXCEPT
                            !.phase = IF done.err = "" THEN "reparsed" ELSE "refailed",
                            !.err = done.err,
                            !.first = parser,
                            !.rules = IF done.err = "" THEN DictValues(done.self) ELSE <<>>]
    /\ UNCHANGED <<lexer_vars, index_vars, later_vars>>

\* The caller drops the parser and what it returned.
ReleaseParser ==
    /\ parsing.phase # "idle"
    /\ parser' = <<>>
    /\ parsing' = NotParsing
    /\ UNCHANGED <<lexer_vars, index_vars, later_vars>>

NextParser ==
    \/ /\ parsing.phase = "idle"
       /\ \E n \in 0..MaxEntries :
             \E patterns \in [1..n -> PatternPool], flag_strs \in [1..n -> FlagStrPool] :
                 FromRaw(SrcDict(patterns, flag_strs))
    \/ ToRaw
    \/ Reparse
    \/ ReleaseParser

ParserSpec == Init /\ [][NextParser]_vars

\* to_raw takes any rules, "generally from the lexer": a rule of the caller whose
\* rulemap items hold rules of the parser, a rule the parser has no name for, or None.
UnnamedRule == StenoRule(<<"z">>, <<"x">>, {}, <<>>, <<>>)

InverseLetters(n) == [i \in 1..n |-> IF i % 2 = 1 THEN "x" ELSE "y"]

\* Patterns without tokens, for the library of the rules given to to_raw.
PlainPatterns == SeqsUpTo({"x"}, MaxTokens)

ChildPool(self) == {None, UnnamedRule} \cup {self[i][2] : i \in 1..Len(self)}

\* The rulemaps of at most n items over the letters from `from` (0-based) to len: the
\* items are in rising order and do not overlap.
RECURSIVE RuleMapsFrom(_, _, _, _)
RuleMapsFrom(children, len, from, n) ==
    {<<>>} \cup
    (IF n = 0 THEN {}
     ELSE UNION {UNION {{<<[rule |-> child, start |-> span[1], length |-> span[2]]>> \o rest :
                            rest \in RuleMapsFrom(children, len, span[1] + span[2], n - 1)} :
                        child \in children} :
                 span \in {sp \in (from..len) \X (0..len) : sp[1] + sp[2] <= len}})

\* raw = parser.to_raw([rule]) for a rule of the caller.
ToRawOf(rule) ==
    /\ parsing.phase = "parsed"
    /\ parsing' = [parsing EXCEPT !.phase = "inverted", !.rules = <<rule>>,
                                  !.raw = to_raw(parser, <<rule>>)]
    /\ UNCHANGED <<lexer_vars, index_vars, parser, later_vars>>

NextInverse ==
    \/ /\ parsing.phase = "idle"
       /\ \E n \in 0..MaxEntries :
             \E patterns \in [1..n -> PlainPatterns], flag_strs \in [1..n -> FlagStrPool] :
                 FromRaw(SrcDict(patterns, flag_strs))
    \/ /\ parsing.phase = "parsed"
       /\ \E n \in 0..MaxLetters :
             \E rulemap \in RuleMapsFrom(ChildPool(parser), n, 0, MaxRulemap) :
                 ToRawOf(StenoRule(<<"z", "z">>, InverseLetters(n), {}, <<>>, rulemap))
    \/ ReleaseParser

InverseSpec == Init /\ [][NextInverse]_vars

\* canvas = Canvas(nrows, ncols, empty)
CanvasInit(nrows, ncols) ==
    /\ canvas = NoCanvas
    /\ canvas' = NewCanvas(nrows, ncols, EMPTY)
    /\ canvas_log' = [NoCanvasLog EXCEPT !.op = "init"]
    /\ UNCHANGED <<lexer_vars, index_vars, parser_vars, graph_vars, app_vars>>

\* The coordinates of the calls: from MaxRows above and MaxCols left of the origin to
\* one place outside the grid, and no further up or left than the grid may grow.
CanvasRows == (0 - MaxRows)..(Len(canvas.grid) - canvas.row_offset)

CanvasCols == (0 - MaxCols)..(Len(canvas.grid[1]) - canvas.col_offset)

CanvasRoom(cv) == Len(cv.grid) <= MaxRows /\ Len(cv.grid[1]) <= MaxCols

\* canvas.write(el, row, col)
CanvasWrite(el, row, col) ==
    /\ canvas # NoCanvas
    /\ CanvasRoom(Placed(canvas, row, col).cv)
    /\ \E done \in {write(canvas, el, row, col)} :
          /\ canvas' = done.cv
          /\ canvas_log' = [op |-> "write", row |-> row, col |-> col, n |-> 1,
                            err |-> done.err,
                            written |-> Logged(canvas_log.written, done.cv, <<el>>, row, col)]
    /\ UNCHANGED <<lexer_vars, index_vars, parser_vars, graph_vars, app_vars>>

\* canvas.write_row(seq, row, col)
CanvasWriteRow(seq, row, col) ==
    /\ canvas # NoCanvas
    /\ CanvasRoom(Placed(canvas, row, col).cv)
    /\ \E done \in {write_row(canvas, seq, row, col)} :
          /\ canvas' = done.cv
          /\ canvas_log' = [op |-> "write_row", row |-> row, col |-> col, n |-> Len(seq),
                            err |-> done.err,
                            written |-> Logged(canvas_log.written, done.cv, seq, row, col)]
    /\ UNCHANGED <<lexer_vars, index_vars, parser_vars, graph_vars, app_vars>>

NextCanvas ==
    \/ \E nrows \in 1..2, ncols \in 1..2 : CanvasInit(nrows, ncols)
    \/ /\ canvas # NoCanvas
       /\ \E el \in CanvasElements, row \in CanvasRows, col \in CanvasCols :
             CanvasWrite(el, row, col)
    \/ /\ canvas # NoCanvas
       /\ \E seq \in [1..2 -> CanvasElements], row \in CanvasRows, col \in CanvasCols :
             CanvasWriteRow(seq, row, col)

CanvasSpec == Init /\ [][NextCanvas]_vars

\* drawn = ElementCanvas.from_layout(layout)
FromLayout(layout) ==
    /\ drawn.status = "none"
    /\ \E done \in {from_layout(layout)} :
          drawn' = [status |-> "drawn", layout |-> layout, cv |-> done.cv, err |-> done.err]
    /\ UNCHANGED <<lexer_vars, index_vars, parser_vars, canvas_vars, app_vars>>

\* The canvas is handed over; the next layout may be drawn.
ReleaseDrawing ==
    /\ drawn.status = "drawn"
    /\ drawn' = NotDrawn
    /\ UNCHANGED <<lexer_vars, index_vars, parser_vars, canvas_vars, app_vars>>

\* The layouts drawn: a root of three letters with up to two children, the first of
\* them with up to one child of its own. A child attaches to a span of its parent's
\* text and lies one or two rows below it.
RootNode == GraphNode("root", <<"a", "b", "c">>, 0, 0, FALSE, TRUE)

AttachSpans(len) == {sp \in (0..len) \X (0..len) : sp[1] + sp[2] <= len}

LeafLayouts(ref, text, parent_len, tops) ==
    {GraphLayout(GraphNode(ref, text, sp[1], sp[2], sep, FALSE), top, <<>>) :
        sp \in AttachSpans(parent_len), sep \in BOOLEAN, top \in tops}

FirstChildLayouts ==
    LeafLayouts("c1", <<"d", "e">>, 3, 1..2)
        \cup {GraphLayout(c.node, c.top, <<g>>) :
                 c \in LeafLayouts("c1", <<"d", "e">>, 3, 1..2),
                 g \in LeafLayouts("g", <<"-">>, 2, {1})}

SecondChildLayouts == LeafLayouts("c2", <<"f">>, 3, 1..2)

NextGraph ==
    \/ /\ drawn.status = "none"
       /\ \/ FromLayout(GraphLayout(RootNode, 0, <<>>))
          \/ \E c1 \in FirstChildLayouts : FromLayout(GraphLayout(RootNode, 0, <<c1>>))
          \/ \E c1 \in FirstChildLayouts, c2 \in SecondChildLayouts :
                FromLayout(GraphLayout(RootNode, 0, <<c1, c2>>))
    \/ ReleaseDrawing

GraphSpec == Init /\ [][NextGraph]_vars

\* __enter__, first half of `self._rlevel += 1`: the level is loaded. The thread
\* starts a call, calls from inside a command, or calls new_exception from __exit__.
EnterLoad(t) ==
    /\ \/ threads[t].pc = "idle" /\ threads[t].calls < MaxCalls
       \/ /\ threads[t].pc = "running" /\ ~threads[t].in_handler
          /\ threads[t].depth < MaxDepth /\ threads[t].calls < MaxCalls
       \/ threads[t].pc = "calling_handler"
    /\ threads' = [threads EXCEPT ![t].tmp = rlevel,
                                  ![t].pc = "entering",
                                  ![t].in_handler = threads[t].pc = "calling_handler",
                                  ![t].calls = IF threads[t].pc = "calling_handler" THEN @ ELSE @ + 1]
    /\ UNCHANGED <<rlevel, lexer_vars, index_vars, parser_vars, canvas_vars, graph_vars>>

\* __enter__, second half of `self._rlevel += 1`: the sum is stored; the command
\* function (or the handler) runs.
EnterStore(t) ==
    /\ threads[t].pc = "entering"
    /\ rlevel' = threads[t].tmp + 1
    /\ threads' = [threads EXCEPT ![t].pc = "running",
                                  ![t].depth = IF threads[t].in_handler THEN @ ELSE @ + 1]
    /\ UNCHANGED <<lexer_vars, index_vars, parser_vars, canvas_vars, graph_vars>>

\* value = func(*args, **kwargs) raises e.
Raise(t, e) ==
    /\ threads[t].pc = "running" /\ ~threads[t].in_handler
    /\ threads' = [threads EXCEPT ![t].pc = "raising", ![t].exc = e,
                                  ![t].raised_at = threads[t].depth]
    /\ UNCHANGED <<rlevel, lexer_vars, index_vars, parser_vars, canvas_vars, graph_vars>>

\* __exit__, first half of `self._rlevel -= 1`: the block ends, because the function
\* returned or because an exception is on its way; the level is loaded.
ExitLoad(t) ==
    /\ threads[t].pc \in {"running", "raising"}
    /\ threads' = [threads EXCEPT ![t].tmp = rlevel, ![t].pc = "exiting"]
    /\ UNCHANGED <<rlevel, lexer_vars, index_vars, parser_vars, canvas_vars, graph_vars>>

\* __exit__, second half of `self._rlevel -= 1`: the difference is stored.
ExitStore(t) ==
    /\ threads[t].pc = "exiting"
    /\ rlevel' = threads[t].tmp - 1
    /\ threads' = [threads EXCEPT ![t].pc = "testing"]
    /\ UNCHANGED <<lexer_vars, index_vars, parser_vars, canvas_vars, graph_vars>>

\* __exit__ of a command's block:
\* return exc_value is not None and not self._rlevel and self.call("new_exception", ...)
ExitTest(t) ==
    /\ threads[t].pc = "testing" /\ ~threads[t].in_handler
    /\ \E th \in {threads[t]} :
          threads' =
              [threads EXCEPT ![t] =
                  IF th.exc = ""
                  THEN After(th, th.depth, "",
                             [NoEvent EXCEPT !.kind = "returned", !.level = th.depth])
                  ELSE IF AtTopLevel(rlevel) THEN [th EXCEPT !.pc = "calling_handler"]
                  ELSE After(th, th.depth, th.exc,
                             [NoEvent EXCEPT !.kind = "raised", !.exc = th.exc,
                                             !.level = th.depth])]
    /\ UNCHANGED <<rlevel, lexer_vars, index_vars, parser_vars, canvas_vars, graph_vars>>

\* __exit__ of the handler's block (no exception), and the value v of
\* call("new_exception", exc_value) back in the __exit__ of the command's block: the
\* exception is suppressed when v is true.
HandlerReturn(t, v) ==
    /\ threads[t].pc = "testing" /\ threads[t].in_handler
    /\ \E th \in {threads[t]} :
          threads' =
              [threads EXCEPT ![t] =
                  After(th, th.depth, IF v THEN "" ELSE th.exc,
                        [kind |-> IF v THEN "suppressed" ELSE "raised", exc |-> th.exc,
                         level |-> th.depth, handled |-> TRUE, value |-> v])]
    /\ UNCHANGED <<rlevel, lexer_vars, index_vars, parser_vars, canvas_vars, graph_vars>>

\* The steps of the thread t.
ThreadStep(t) ==
    \/ EnterLoad(t)
    \/ EnterStore(t)
    \/ \E e \in Exceptions : Raise(t, e)
    \/ ExitLoad(t)
    \/ ExitStore(t)
    \/ ExitTest(t)
    \/ \E v \in BOOLEAN : HandlerReturn(t, v)

\* One thread runs the application.
NextApp == ThreadStep(1)

AppSpec == Init /\ [][NextApp]_vars

\* Two threads run the same application.
NextThreads == \E t \in Threads : ThreadStep(t)

ThreadsSpec == Init /\ [][NextThreads]_vars

NextTranslation ==
    \/ \E i \in 1..Len(RulePool) : AddRule(i)
    \/ Build
    \/ /\ pc = "idle"
       /\ \E trs \in SeqsUpTo(TranslationPool, MaxTranslations) : FindBestTranslation(trs)
    \/ ReleaseTranslation

TranslationSpec == Init /\ [][NextTranslation]_vars

(* ------------------------- vocabulary of the claims -------------------- *)
\* A call of query is running or has just returned: q holds its queue.
Running == pc \in {"process", "done"}

Unmatched(s) == Len(s[1])
NumRules(s) == (Len(s) - 1) \div 3
RuleName(s, k) == s[3 * k - 1]
RuleStart(s, k) == s[3 * k]
RuleLength(s, k) == s[3 * k + 1]
LettersMatched(s) == Sum([k \in 1..NumRules(s) |-> RuleLength(s, k)])
RareCount(s) == Cardinality({k \in 1..NumRules(s) : RuleName(s, k) \in lexer.rare_set})

\* The state _process returns for the queue q.
Best == find_best(lexer.rare_set, q)

\* The two states tie on unmatched keys and on letters matched (criteria 1 and 2).
TieTwo(a, b) == Unmatched(a) = Unmatched(b) /\ LettersMatched(a) = LettersMatched(b)

\* The two states tie on all four criteria.
TieAll(a, b) == TieTwo(a, b) /\ RareCount(a) = RareCount(b) /\ NumRules(a) = NumRules(b)

\* a is kept over b whichever of the two is the accumulator.
Kept(a, b) ==
    /\ keep_better(lexer.rare_set, a, b) = a
    /\ keep_better(lexer.rare_set, b, a) = a

\* x is kept over s although s is the accumulator.
Beats(x, s) == keep_better(lexer.rare_set, s, x) # s

Unbeaten(s) == \A k \in 1..Len(q) : ~Beats(q[k], s)

NumLexerRules ==
    Sum([k \in 1..Len(lexer.rule_matchers) |-> Len(lexer.rule_matchers[k].rules)])

RECURSIVE Pow(_, _)
Pow(b, n) == IF n = 0 THEN 1 ELSE b * Pow(b, n - 1)

\* Every matcher call yields at most one match per rule, and a state with d rules has
\* at most Len(skeys) - d keys left: the queue holds at most this many states.
QueueBound == Sum([d \in 1..(Len(skeys) + 1) |-> Pow(NumLexerRules, d - 1)])

(* -------------------------------- claims ------------------------------ *)

\* C1: the search of _process ends. Every loop iteration moves the iterator on by one
\* item and removes nothing from the queue, and every state it appends has strictly
\* fewer unmatched keys than the state it extends; the queue never holds more than
\* QueueBound states and the iterator is never more than one past its end, so the loop
\* runs at most QueueBound times; when the call has returned, the whole queue has been
\* visited and the state returned is a state of the queue; and a call that is in its
\* loop does return.
C1_ProcessEnds ==
    /\ [][pc = "process" /\ pc' = "process" =>
            /\ idx' = idx + 1
            /\ Len(q') >= Len(q)
            /\ SubSeq(q', 1, Len(q)) = q
            /\ \A k \in (Len(q) + 1)..Len(q') : Unmatched(q'[k]) < Unmatched(q[idx])]_vars
    /\ [](Running => (Len(q) <= QueueBound /\ idx <= Len(q) + 1))
    /\ [](pc = "done" => (idx = Len(q) + 1 /\ \E i \in 1..Len(q) : q[i] = Best))
    /\ (pc = "process") ~> (pc = "done")

C1_Witness ==
    /\ pc = "done"
    /\ Len(q) >= 5
    /\ \E i \in 1..Len(q) : NumRules(q[i]) = 2 /\ Unmatched(q[i]) = 0

\* C2: the state _find_best returns for the whole queue has the fewest unmatched keys
\* of all discovered states, and the most letters matched among those with the fewest.
C2_BestFewestKeysMostLetters ==
    pc = "done" =>
        \A i \in 1..Len(q) :
            /\ Unmatched(Best) <= Unmatched(q[i])
            /\ Unmatched(q[i]) = Unmatched(Best) => LettersMatched(q[i]) <= LettersMatched(Best)

C2_Witness ==
    /\ pc = "done"
    /\ \E i \in 1..Len(q) : Unmatched(q[i]) > Unmatched(Best) /\ NumRules(q[i]) > 0
    /\ \E i \in 1..Len(q) :
          Unmatched(q[i]) = Unmatched(Best) /\ LettersMatched(q[i]) < LettersMatched(Best)

\* C3 (as claimed): of two states that tie on unmatched keys and letters matched,
\* _keep_better keeps the one with fewer rare rules in total, and when the totals are
\* equal the one with fewer rules.
C3_FewerRareInTotalKept ==
    pc = "done" =>
        \A i, j \in 1..Len(q) :
            TieTwo(q[i], q[j]) =>
                /\ RareCount(q[i]) < RareCount(q[j]) => Kept(q[i], q[j])
                /\ (RareCount(q[i]) = RareCount(q[j]) /\ NumRules(q[i]) < NumRules(q[j]))
                      => Kept(q[i], q[j])

\* C4: of two states that tie on unmatched keys and letters matched, one without a rare
\* rule is kept over one with a rare rule, whichever is the accumulator and however
\* many rules each has.
C4_NoRareOverRare ==
    Running =>
        \A i, j \in 1..Len(q) :
            (TieTwo(q[i], q[j]) /\ RareCount(q[i]) = 0 /\ RareCount(q[j]) >= 1)
                => Kept(q[i], q[j])

C4_Witness ==
    /\ pc = "done"
    /\ \E i, j \in 1..Len(q) :
          /\ TieTwo(q[i], q[j])
          /\ RareCount(q[i]) = 0
          /\ RareCount(q[j]) >= 1
          /\ NumRules(q[j]) < NumRules(q[i])
          /\ Best = q[i]

\* C5 (as claimed): on a tie on all four criteria _keep_better keeps the accumulator,
\* and for every state that no state of the queue beats, _find_best returns the last
\* discovered of the unbeaten states that tie with it on all four criteria.
C5_LastOfUnbeatenTies ==
    pc = "done" =>
        /\ \A i, j \in 1..Len(q) :
              TieAll(q[i], q[j]) => keep_better(lexer.rare_set, q[i], q[j]) = q[i]
        /\ \A i \in 1..Len(q) :
              Unbeaten(q[i]) =>
                  LET ties == {j \in 1..Len(q) : TieAll(q[j], q[i]) /\ Unbeaten(q[j])}
                      last == CHOOSE j \in ties : \A k \in ties : k <= j
                  IN  Best = q[last]

\* C6: with match_all_keys the result has no rules whenever the winning state has an
\* unmatched key, and the winner's rules, positions and lengths unchanged when it has
\* none; without match_all_keys the winner's rules are always returned.
C6_MatchAllKeys ==
    pc = "done" =>
        IF match_all_keys /\ Unmatched(Best) > 0
        THEN /\ result.rule_names = <<>>
             /\ result.rule_positions = <<>>
             /\ result.rule_lengths = <<>>
        ELSE /\ result.rule_names = [k \in 1..NumRules(Best) |-> RuleName(Best, k)]
             /\ result.rule_positions = [k \in 1..NumRules(Best) |-> RuleStart(Best, k)]
             /\ result.rule_lengths = [k \in 1..NumRules(Best) |-> RuleLength(Best, k)]

C6_Witness ==
    /\ pc = "done"
    /\ match_all_keys
    /\ Unmatched(Best) > 0
    /\ NumRules(Best) > 0
    /\ result.rule_names = <<>>

\* C7 (as claimed): every result of query that has no rules has unmatched_skeys equal
\* to the skeys passed in, whatever match_all_keys is.
C7_NoRulesAllKeysUnmatched ==
    pc = "done" => (result.rule_names = <<>> => result.unmatched_skeys = skeys)

\* C8: the caption is "Found complete match." exactly when no key is unmatched,
\* "Incomplete match. Not reliable." exactly when keys are unmatched and there is a
\* rule, and "No matches found." exactly when keys are unmatched and there is no rule.
C8_Caption ==
    pc = "done" =>
        /\ caption(result) = "Found complete match." <=> result.unmatched_skeys = <<>>
        /\ caption(result) = "Incomplete match. Not reliable."
              <=> (result.unmatched_skeys # <<>> /\ Len(result.rule_names) >= 1)
        /\ caption(result) = "No matches found."
              <=> (result.unmatched_skeys # <<>> /\ Len(result.rule_names) = 0)

C8_Witness ==
    /\ pc = "done"
    /\ result.unmatched_skeys # <<>>
    /\ Len(result.rule_names) >= 1
    /\ caption(result) = "Incomplete match. Not reliable."

\* C9: in a result with rules, every rule ends inside the letters and the rule lengths
\* add up to at most the number of letters.
C9_RulesInsideLetters ==
    pc = "done" =>
        (result.rule_names # <<>> =>
            /\ \A k \in 1..Len(result.rule_names) :
                  result.rule_positions[k] + result.rule_lengths[k] <= Len(letters)
            /\ Sum(result.rule_lengths) <= Len(letters))

C9_Witness ==
    /\ pc = "done"
    /\ Len(result.rule_names) = 2
    /\ result.rule_positions[2] > 0
    /\ Sum(result.rule_lengths) = Len(letters)

\* C10: a call of query with the arguments of a remembered earlier call returns the
\* result of that call, whatever was queried in between, and from build on the
\* matchers and the rare set of the lexer are those the factory built.
C10_SameCallSameResult ==
    /\ (pc = "done" /\ memo # <<>> /\ memo[1] = skeys /\ memo[2] = letters
            /\ memo[3] = match_all_keys) => result = memo[4]
    /\ pc # "factory" => lexer = build(factory)

C10_Witness ==
    /\ pc = "done"
    /\ memo # <<>>
    /\ memo[1] = skeys /\ memo[2] = letters /\ memo[3] = match_all_keys
    /\ result = memo[4]
    /\ Len(result.rule_names) = 2

\* The factory that the same add_rule calls without the one for the rule `name` build.
FactoryWithout(f, name) ==
    LET keep(r) == r.name # name
        keepname(n) == n # name
    IN  [prefix_matcher  |-> [f.prefix_matcher EXCEPT !.rules = SelectSeq(@, keep)],
         stroke_matcher  |-> [f.stroke_matcher EXCEPT !.rules = SelectSeq(@, keep)],
         word_matcher    |-> [f.word_matcher EXCEPT !.rules = SelectSeq(@, keep)],
         special_matcher |-> [f.special_matcher EXCEPT !.rules = SelectSeq(@, keep)],
         rare_rules      |-> SelectSeq(f.rare_rules, keepname)]

\* The four criteria of a state as numbers that are better when greater, with the rare
\* rules counted in total against the rare set of the lexer lx.
Score(lx, s) ==
    << -Unmatched(s), LettersMatched(s),
       -Cardinality({k \in 1..NumRules(s) : RuleName(s, k) \in lx.rare_set}), -NumRules(s) >>

\* a is not strictly worse than b on the first criterion on which they differ.
NotWorse(a, b) ==
    \A k \in 1..4 : (\A j \in 1..(k - 1) : a[j] = b[j]) => a[k] >= b[k]

\* C11 (as claimed): the winner of the lexer built from the library is, on the first of
\* the four criteria on which they differ, never worse than the winner of the lexer
\* built from the library without one of its rules, for the same translation.
C11_AddRuleNeverWorse ==
    pc = "done" =>
        \A k \in 1..Len(FactoryRules(factory)) :
            LET smaller == build(FactoryWithout(factory, FactoryRules(factory)[k].name))
            IN  NotWorse(Score(lexer, Best), Score(smaller, process(smaller, skeys, letters)))

\* The winner of candidate i of the last find_best_translation has no unmatched keys.
FullyMatched(i) == Unmatched(fbt.winners[i]) = 0

\* C12: when exactly one candidate's winner has no unmatched keys, find_best_translation
\* returns the index of that candidate.
C12_OnlyFullMatchWins ==
    pc = "translated" =>
        \A i \in 1..Len(fbt.translations) :
            (FullyMatched(i) /\ \A j \in 1..Len(fbt.translations) : j # i => ~FullyMatched(j))
                => (fbt.status = "returned" /\ fbt.index = i - 1)

C12_Witness ==
    /\ pc = "translated"
    /\ fbt.status = "returned"
    /\ Len(fbt.translations) = 2
    /\ FullyMatched(1)
    /\ NumRules(fbt.winners[1]) >= 1
    /\ Unmatched(fbt.winners[2]) = 2
    /\ fbt.index = 0

\* C13: find_best_translation with no candidates raises and returns no index; with
\* candidates it returns an index of the list.
C13_NoCandidatesRaises ==
    pc = "translated" =>
        IF fbt.translations = <<>>
        THEN fbt.status \in EmptyStatesErrors /\ fbt.index = -1
        ELSE fbt.status = "returned" /\ fbt.index \in 0..(Len(fbt.translations) - 1)

C13_Witness ==
    /\ pc = "translated"
    /\ fbt.translations = <<>>
    /\ fbt.status = "AssertionError"
    /\ NumLexerRules >= 1

\* The rules of result rs include the rule that rev_rules calls name.
UsesRuleNamed(rs, name) ==
    \E k \in 1..Len(rs.rulemap) : RevGet(rev_rules, rs.rulemap[k]) = name

\* The names of the named rules that occur in the rulemap of some result.
NamesUsed ==
    {name \in IndexNames :
        \E i \in 1..Len(compiled.results) : UsesRuleNamed(compiled.results[i], name)}

\* C14 (as claimed): the keys of the index are the names of the named rules used, never
\* the null key, and index[name] has the entry keys -> letters for exactly the results
\* that use the rule called name.
C14_EntryForEveryResult ==
    compiled.status = "returned" =>
        /\ DictKeys(compiled.index) = NamesUsed
        /\ \A name \in NamesUsed :
              LET entries == DictGet(compiled.index, name, <<>>)
              IN  {<<entries[i][1], entries[i][2]>> : i \in 1..Len(entries)}
                    = {<<compiled.results[i].keys, compiled.results[i].letters>> :
                          i \in {j \in 1..Len(compiled.results) :
                                    UsesRuleNamed(compiled.results[j], name)}}

\* C14 (amended): the keys of the index are the names of the named rules used, never the
\* null key, and index[name] maps exactly the keys of the results that use the rule
\* called name, each to the letters of the last such result with those keys.
C14_LastResultPerKeys ==
    compiled.status = "returned" =>
        /\ DictKeys(compiled.index) = NamesUsed
        /\ NoName \notin DictKeys(compiled.index)
        /\ \A name \in NamesUsed :
              LET entries == DictGet(compiled.index, name, <<>>)
                  users == {j \in 1..Len(compiled.results) :
                               UsesRuleNamed(compiled.results[j], name)}
              IN  /\ DictKeys(entries) = {compiled.results[j].keys : j \in users}
                  /\ \A j \in users :
                        (\A k \in users : k > j => compiled.results[k].keys # compiled.results[j].keys)
                            => DictGet(entries, compiled.results[j].keys, "") = compiled.results[j].letters

C14_Witness ==
    /\ compiled.status = "returned"
    /\ Len(compiled.results) = 2
    /\ compiled.results[1].keys = compiled.results[2].keys
    /\ compiled.results[1].letters # compiled.results[2].letters
    /\ \E name \in NamesUsed :
          /\ UsesRuleNamed(compiled.results[1], name)
          /\ UsesRuleNamed(compiled.results[2], name)
    /\ \E i \in 1..2 : \E k \in 1..Len(compiled.results[i].rulemap) :
          compiled.results[i].rulemap[k] \notin DOMAIN rev_rules


(* ----------------------- vocabulary of the parser claims --------------- *)
\* The bracket tokens of a source pattern, left to right, as they are written.
RECURSIVE Tokens(_)
Tokens(pattern) ==
    LET m == SubruleSearch(pattern)
    IN  IF m[1] = 0 THEN <<>>
        ELSE <<SubSeq(pattern, m[1], m[2])>> \o Tokens(Drop(pattern, m[2]))

\* The pattern of the entry `name` of a source dict, and the names its tokens refer to.
PatternOf(src, name) == DictGet(src, name, RawRule(<<>>, <<>>, <<>>, <<>>, <<>>)).pattern

RefsOf(src, name) ==
    LET tokens == Tokens(PatternOf(src, name))
    IN  {TokenKey(tokens[i]) : i \in 1..Len(tokens)}

\* Some token of some entry names a key that the source dict does not have.
HasMissing(src) == \E name \in DictKeys(src) : ~(RefsOf(src, name) \subseteq DictKeys(src))

\* The names reached from `name` through one or more references.
RECURSIVE ReachFrom(_, _, _)
ReachFrom(src, seen, n) ==
    IF n = 0 THEN seen
    ELSE ReachFrom(src, seen \cup UNION {RefsOf(src, x) : x \in seen \cap DictKeys(src)}, n - 1)

Reaches(src, name) == ReachFrom(src, RefsOf(src, name), Len(ParserNames))

\* Some entry refers to itself, directly or through other entries.
Cyclic(src) == \E name \in DictKeys(src) : name \in Reaches(src, name)

\* The references of the source dict are all present and acyclic.
WellFormed(src) == ~HasMissing(src) /\ ~Cyclic(src)

\* The letters that a pattern stands for: read from the left, a (name) token gives the
\* letters of the entry called name and a [visible|name] token gives visible.
RECURSIVE ExpectedLetters(_, _)
ExpectedLetters(src, pattern) ==
    LET m == SubruleSearch(pattern)
        token == SubSeq(pattern, m[1], m[2])
    IN  IF m[1] = 0 THEN pattern
        ELSE SubSeq(pattern, 1, m[1] - 1)
                 \o (IF TokenRound(token)
                     THEN ExpectedLetters(src, PatternOf(src, TokenKey(token)))
                     ELSE TokenVisible(token))
                 \o ExpectedLetters(src, Drop(pattern, m[2]))

HasBracket(str) == \E i \in 1..Len(str) : str[i] \in LEFT_BRACKETS \cup RIGHT_BRACKETS

\* from_raw has returned the rules of parsing.src, whose references are well formed.
Parsed == parsing.phase = "parsed" /\ WellFormed(parsing.src)

\* C15: for a source dict whose references are all present and acyclic, the letters of
\* every rule are its pattern with each (name) token replaced by the letters of the rule
\* called name and each [visible|name] token replaced by visible, also when visible is
\* empty, and no bracket is left in the letters.
C15_LettersFollowPattern ==
    Parsed =>
        \A name \in DictKeys(parsing.src) :
            /\ name \in DictKeys(parser)
            /\ DictGet(parser, name, None).letters
                   = ExpectedLetters(parsing.src, PatternOf(parsing.src, name))
            /\ ~HasBracket(DictGet(parser, name, None).letters)

\* The rulemap entries that the tokens of a pattern stand for, left to right: the rule
\* stored under the name of the token, the place in the final letters where the text of
\* the token begins (`offset` letters come before the pattern) and the length of that text.
RECURSIVE ExpectedItems(_, _, _)
ExpectedItems(src, pattern, offset) ==
    LET m == SubruleSearch(pattern)
        token == SubSeq(pattern, m[1], m[2])
        text == IF TokenRound(token)
                THEN ExpectedLetters(src, PatternOf(src, TokenKey(token)))
                ELSE TokenVisible(token)
        start == offset + m[1] - 1
    IN  IF m[1] = 0 THEN <<>>
        ELSE <<[rule |-> DictGet(parser, TokenKey(token), None),
                start |-> start,
                length |-> Len(text)]>>
                 \o ExpectedItems(src, Drop(pattern, m[2]), start + Len(text))

\* The entries of a rulemap that tokens put there: their rule is a rule of the parser
\* (the marker of a key flag is not).
TokenItems(rulemap) ==
    SelectSeq(rulemap, LAMBDA item : \E i \in 1..Len(parser) : parser[i][2] = item.rule)

\* C16: the rulemap of every rule holds one entry (child, start, length) for every token
\* occurrence of its pattern: child is the rule the token names, start the place in the
\* final letters where the text of the token begins, length the length of that text; also
\* when the same token text occurs more than once.
C16_EntryPerTokenOccurrence ==
    Parsed =>
        \A name \in DictKeys(parsing.src) :
            TokenItems(DictGet(parser, name, None).rulemap)
                = ExpectedItems(parsing.src, PatternOf(parsing.src, name), 0)

\* from_raw has returned or raised.
Returned == parsing.phase \in {"parsed", "failed"}

\* The entries with a token that names an absent key, and the entries that hold such a
\* token or refer, directly or through other entries, to an entry that holds one.
BadEntries(src) == {name \in DictKeys(src) : ~(RefsOf(src, name) \subseteq DictKeys(src))}

Tainted(src) ==
    {name \in DictKeys(src) :
        name \in BadEntries(src) \/ Reaches(src, name) \cap BadEntries(src) # {}}

\* When from_raw fails, no rule is stored for a bad entry or an entry that refers to one.
NothingStoredForBad ==
    parsing.err # "" => Tainted(parsing.src) \cap DictKeys(parser) = {}

C18_CycleRejected ==
    (Returned /\ Cyclic(parsing.src)) => parsing.err = "CircularReference"

\* The sum of the positive lengths of the entries of a rulemap.
RECURSIVE PositiveLengths(_)
PositiveLengths(rulemap) ==
    IF rulemap = <<>> THEN 0
    ELSE (IF Head(rulemap).length > 0 THEN Head(rulemap).length ELSE 0)
             + PositiveLengths(Tail(rulemap))

Coordinates(rulemap) ==
    [i \in 1..Len(rulemap) |-> <<rulemap[i].rule.keys, rulemap[i].start, rulemap[i].length>>]

\* Two rules have the same keys, letters and rulemap entries.
SameRule(a, b) ==
    /\ a.keys = b.keys
    /\ a.letters = b.letters
    /\ Coordinates(a.rulemap) = Coordinates(b.rulemap)

\* C20: for a source dict that the parser accepts, parsing to_raw(from_raw(src)) again
\* gives for every rule the same keys, letters and rulemap entries (child, start,
\* length) as from_raw(src) gave, also for patterns of the [visible|name] form.
C20_RoundTrip ==
    parsing.phase \in {"reparsed", "refailed"} =>
        /\ parsing.phase = "reparsed"
        /\ DictKeys(parser) = DictKeys(parsing.first)
        /\ \A name \in DictKeys(parsing.first) :
              SameRule(DictGet(parser, name, None), DictGet(parsing.first, name, None))

\* The rule has a name in the library of the parser.
NamedIn(self, r) == \E i \in 1..Len(self) : self[i][2] = r

\* The pattern that stands for letters and a rulemap when, from the right, only the
\* items of positive length whose rule is not false and has the name `name` in the
\* library are replaced by (name).
RECURSIVE ExpectedPattern(_, _, _, _)
ExpectedPattern(self, ltrs, rulemap, i) ==
    IF i = 0 THEN ltrs
    ELSE LET item == rulemap[i]
         IN  IF Falsy(item.rule) \/ item.length = 0 \/ ~NamedIn(self, item.rule)
             THEN ExpectedPattern(self, ltrs, rulemap, i - 1)
             ELSE ExpectedPattern(self,
                                  SubSeq(ltrs, 1, item.start) \o <<"(">>
                                      \o self[CHOOSE k \in 1..Len(self) : self[k][2] = item.rule][1]
                                      \o <<")">> \o Drop(ltrs, item.start + item.length),
                                  rulemap, i - 1)

\* C21: in the pattern that to_raw rebuilds, an item stays plain letters whenever its
\* rule has no name in the library, its length is zero or its rule is false; only the
\* named children of positive length are replaced by (name).
C21_OnlyNamedChildrenReferenced ==
    parsing.phase = "inverted" =>
        parsing.raw[1][2].pattern
            = ExpectedPattern(parser, parsing.rules[1].letters, parsing.rules[1].rulemap,
                              Len(parsing.rules[1].rulemap))

\* Every element written at the caller's (row, col) and not overwritten since is at
\* the place (row + row_offset, col + col_offset) of the grid.
WrittenInPlace ==
    \A w \in canvas_log.written :
        /\ w[1] + canvas.row_offset \in 0..(Len(canvas.grid) - 1)
        /\ w[2] + canvas.col_offset \in 0..(Len(canvas.grid[1]) - 1)
        /\ canvas.grid[w[1] + canvas.row_offset + 1][w[2] + canvas.col_offset + 1] = w[3]

\* All rows of the grid have the same length.
RowsSameLength == \A i \in 1..Len(canvas.grid) : Len(canvas.grid[i]) = Len(canvas.grid[1])

\* How far `at` plus the offset lies before the grid.
Missing(at, offset) == IF at + offset < 0 THEN 0 - (at + offset) ELSE 0

\* A call grows the grid by the rows and columns missing for its coordinates, and adds
\* as much to the offsets.
GrowsByMissing ==
    (canvas # NoCanvas /\ canvas_log' # canvas_log) =>
        /\ Len(canvas'.grid) = Len(canvas.grid) + Missing(canvas_log'.row, canvas.row_offset)
        /\ canvas'.row_offset = canvas.row_offset + Missing(canvas_log'.row, canvas.row_offset)
        /\ Len(canvas'.grid[1])
               = Len(canvas.grid[1]) + Missing(canvas_log'.col, canvas.col_offset)
        /\ canvas'.col_offset = canvas.col_offset + Missing(canvas_log'.col, canvas.col_offset)

\* C22: after any write and write_row calls, every element written at (row, col) and not
\* overwritten since is stored at (row + row_offset, col + col_offset); a write at a
\* negative coordinate grows the grid by exactly the missing rows or columns, adds that
\* amount to the offset, and all rows keep the same length.
C22_WritesStayPlaced ==
    /\ [](canvas # NoCanvas => WrittenInPlace /\ RowsSameLength)
    /\ [][GrowsByMissing]_vars

\* An element written at the origin has been moved by a later write above and left of
\* the grid, and both are in the grid.
C22_Witness ==
    /\ canvas # NoCanvas
    /\ canvas.row_offset = 1
    /\ canvas.col_offset = 1
    /\ canvas_log.err = ""
    /\ canvas_log.row = -1
    /\ canvas_log.col = -1
    /\ <<0, 0, "a">> \in canvas_log.written
    /\ <<-1, -1, "b">> \in canvas_log.written

(* ------------------------------ graph claims --------------------------- *)
\* The cells of the drawn canvas: row, col (of the grid) and the element there.
Cells ==
    {[row |-> i - 1, col |-> j - 1, el |-> drawn.cv.grid[i][j]] :
        i \in 1..Len(drawn.cv.grid), j \in 1..(IF drawn.cv.grid = <<>> THEN 0 ELSE Len(drawn.cv.grid[1]))}

GraphTypeOK == drawn.err = ""

\* The nodes of a layout with where they are drawn: the node, the row of its body,
\* its left column, the row of its parent's body and the refs of its ancestors.
RECURSIVE NodesOf(_, _, _, _)
NodesOf(layout, parent_top, parent_left, ancestors) ==
    {[node |-> layout.node, top |-> parent_top + layout.top,
      left |-> parent_left + layout.left, parent_top |-> parent_top,
      ancestors |-> ancestors]}
        \cup UNION {NodesOf(layout.sublayouts[i], parent_top + layout.top,
                            parent_left + layout.left, ancestors \cup {layout.node.ref}) :
                       i \in 1..Len(layout.sublayouts)}

DrawnNodes == NodesOf(drawn.layout, 0, 0, {})

Descendants(n) == {d \in DrawnNodes : n.node.ref \in d.ancestors}

\* The descendant d attaches at the column col.
AttachedAt(d, col) == col \in d.left..(d.left + d.node.attach_length - 1)

\* The cells that show the body of n: for a separator, the cells of its row that
\* hold its character alone; else the cells of n on the row of its body.
BodyCells(n) ==
    IF n.node.separator
    THEN {c \in Cells : c.row = n.top /\ c.el = GridElementOf(n.node.text[1])}
    ELSE {c \in Cells : c.el.ref = n.node.ref /\ c.row = n.top}

\* The cells that show the connectors of n: its cells above the row of its body.
ConnectorCells(n) == {c \in Cells : c.el.ref = n.node.ref /\ c.row < n.top}

\* C23: in every canvas that from_layout writes, every cell that holds an element of
\* a node (a cell of its body, of its connectors or of its separator row) has a
\* trigger set with the ref of that node in it.
C23_OwnerInTriggers ==
    drawn.status = "drawn" =>
        \A n \in DrawnNodes :
            \A c \in BodyCells(n) \cup ConnectorCells(n) : n.node.ref \in c.el.triggers

\* C24: a cell of the body of N has in its trigger set the ref of N, the refs of the
\* descendants of N attached at its column and the refs of the ancestors of N; a
\* cell of the connectors of N has the ref of N and the refs of all descendants of N.
C24_TriggersOfBodyAndConnectors ==
    drawn.status = "drawn" =>
        \A n \in {m \in DrawnNodes : ~m.node.separator} :
            /\ \A c \in BodyCells(n) :
                   {n.node.ref} \cup {d.node.ref : d \in {e \in Descendants(n) : AttachedAt(e, c.col)}}
                       \cup n.ancestors \subseteq c.el.triggers
            /\ \A c \in ConnectorCells(n) :
                   {n.node.ref} \cup {d.node.ref : d \in Descendants(n)} \subseteq c.el.triggers

\* The only child of the root, when the root has one child.
OnlyChild == CHOOSE n \in DrawnNodes : n.ancestors = {drawn.layout.node.ref}

Root == CHOOSE n \in DrawnNodes : n.ancestors = {}

\* C25: when the only child N of the root attaches at the letters s..s+n-1, the cells
\* with the ref of N in their trigger set are the cells of the root's body in the
\* columns s..s+n-1, the cells of N's connectors and the cells of N's body, and no
\* other cell.
C25_CellsLitByOnlyChild ==
    drawn.status = "drawn" /\ Len(drawn.layout.sublayouts) = 1 =>
        {c \in Cells : OnlyChild.node.ref \in c.el.triggers}
            = {c \in BodyCells(Root) :
                  c.col \in OnlyChild.node.attach_start
                               ..(OnlyChild.node.attach_start + OnlyChild.node.attach_length - 1)}
                \cup ConnectorCells(OnlyChild) \cup BodyCells(OnlyChild)

\* C26: the state that _find_best returns is a maximum of the comparison: the list
\* holds no other state that _keep_better keeps over it both as current and as other.
C26_BestIsMaximum ==
    pc = "done" => \A i \in 1..Len(q) : q[i] # Best => ~Kept(q[i], Best)

(* --------------------------- application claims ------------------------ *)
\* The block that ended last in the thread t was its outermost one, and an exception
\* was on its way out of it.
ExceptionAtOutermost(t) ==
    threads[t].last.level = 1 /\ threads[t].last.kind \in {"raised", "suppressed"}

\* C27: when two threads run Application.call on the same application, an exception
\* that leaves the outermost command of a thread is passed to the new_exception
\* handler, and no exception is passed to it at a nested level, whatever the other
\* thread is doing.
C27_ThreadsDoNotConflict ==
    \A t \in Threads :
        /\ ExceptionAtOutermost(t) => threads[t].last.handled
        /\ threads[t].last.handled => threads[t].last.level = 1

\* C28: in a single thread an exception raised inside nested calls leaves every nested
\* level unchanged and without a call of new_exception; it is passed to new_exception
\* at the outermost level, and suppressed there only if the handler returns a true
\* value; outside Application.call _rlevel is 0.
C28_HandledAtOutermostOnly ==
    LET th == threads[1]
    IN  /\ (th.last.kind = "raised" /\ th.last.level > 1)
               => ~th.last.handled /\ th.exc = th.last.exc
        /\ th.in_handler => th.depth = 1
        /\ th.last.handled => th.last.level = 1
        /\ ExceptionAtOutermost(1) => th.last.handled
        /\ th.last.kind = "suppressed" <=> th.last.value
        /\ th.pc = "idle" => rlevel = 0

C28_Witness ==
    /\ threads[1].pc = "idle"
    /\ threads[1].last.kind = "suppressed"
    /\ threads[1].raised_at = 2
    /\ threads[1].last.exc = "ValueError"

(* ------------------------------ lexer claims --------------------------- *)
\* The rules of the state s are in order and do not overlap.
Ordered(s) ==
    \A k \in 1..(NumRules(s) - 1) :
        RuleStart(s, k + 1) >= RuleStart(s, k) + RuleLength(s, k)

\* C29: in every state of the queue, and in every result of query, each rule starts at
\* or after the end of the rule before it: start(i+1) >= start(i) + length(i).
C29_RulesOrdered ==
    /\ Running => \A i \in 1..Len(q) : Ordered(q[i])
    /\ pc = "done" =>
           \A k \in 1..(Len(result.rule_names) - 1) :
               result.rule_positions[k + 1]
                   >= result.rule_positions[k] + result.rule_lengths[k]

C29_Witness ==
    /\ pc = "done"
    /\ Len(result.rule_names) = 2
    /\ result.rule_lengths[1] > 0
    /\ result.rule_positions[2] = result.rule_positions[1] + result.rule_lengths[1]
    /\ \E i \in 1..Len(q) : NumRules(q[i]) = 2 /\ RuleStart(q[i], 2) > RuleLength(q[i], 1)

\* The equalized best state of candidate i of the last find_best_translation: the
\* first unmatched key only, and the rule entries of the winner.
EqualizedState(i) ==
    <<SubSeq(fbt.winners[i][1], 1, IF fbt.winners[i][1] = <<>> THEN 0 ELSE 1)>>
        \o Tail(fbt.winners[i])

\* The winning state of the fold over the equalized states.
FoldWinner ==
    find_best(lexer.rare_set, [i \in 1..Len(fbt.translations) |-> EqualizedState(i)])

\* C30: for a non-empty candidate list find_best_translation returns an index of the
\* list: the lowest index whose equalized best state equals the winning state of the
\* fold, so the earlier one of two candidates with equal equalized states.
C30_LowestIndexOfWinner ==
    (pc = "translated" /\ fbt.translations # <<>>) =>
        /\ fbt.status = "returned"
        /\ fbt.index \in 0..(Len(fbt.translations) - 1)
        /\ EqualizedState(fbt.index + 1) = FoldWinner
        /\ \A j \in 1..fbt.index : EqualizedState(j) # FoldWinner

C30_Witness ==
    /\ pc = "translated"
    /\ Len(fbt.translations) = 2
    /\ fbt.winners[1] # fbt.winners[2]
    /\ EqualizedState(1) = EqualizedState(2)
    /\ fbt.index = 0

====
